---- MODULE Spec2Model ----
(***************************************************************************)
(* MockMatch: the interview-session aggregate, the SessionManager's pure   *)
(* transitions over it (src/lib/session-manager.ts, lines 14-179), the     *)
(* serialization codec (same file, lines 240-329), the storage functions   *)
(* over localStorage (lines 335-500) and the SessionPersistence            *)
(* coordinator with its auto-save timer (src/lib/session-persistence.ts).  *)
(*                                                                         *)
(* A JS Map is a sequence of <<key, value>> pairs with pairwise distinct   *)
(* keys, in insertion order.  A nullable value is <<>> (null) or <<v>>.    *)
(* A Date is its millisecond count; InvalidDate is the Date whose          *)
(* getTime() is NaN.  An operation that can throw returns a result record  *)
(* [ok, value, error]; the client keeps the session it passed when the     *)
(* call throws.                                                            *)
(*                                                                         *)
(* The manager validates neither the question list (any length, ids may    *)
(* repeat) nor the feedback it is handed, so both are drawn freely.  The   *)
(* clock read by new Date() only moves forward.  Indexes are integers.     *)
(*                                                                         *)
(* Spec is the manager with the codec's round trip.  StoreSpec is the      *)
(* storage functions and the coordinator: a page load finds localStorage   *)
(* empty or holding texts of any origin, runs in a browser or not, and any *)
(* setItem call may be rejected for lack of space.  RetrySpec is one call  *)
(* of withRetry (src/lib/openai-client.ts) after another: each invocation  *)
(* of the operation returns a value or throws an error of any status and   *)
(* code; RetryLiveSpec adds that a started invocation settles and a        *)
(* started sleep ends.  AutoSaveLiveSpec is the coordinator on an empty    *)
(* localStorage with every setItem accepted, under the fairness of the     *)
(* interval timer.  RouteSpec is POST /api/parse-jd (src/unnamed/part_002) *)
(* serving one request after another over withRetry.                       *)
(***************************************************************************)
EXTENDS Integers, Sequences, FiniteSets, TLC

VARIABLES
    session,    \* the caller's current InterviewSession value
    now,        \* the wall clock read by new Date()
    issued,     \* how many identifiers uuidv4() has handed out
    thrown,     \* message of the error the most recent call threw, "none" if it returned
    restored,   \* <<r>> right after a call that reads back returned r, else <<>>
    window,         \* typeof window !== 'undefined': the code runs in a browser
    localStorage,   \* the browser's localStorage, by the keys of STORAGE_KEYS
    autoSaveTimer,  \* SessionPersistence.autoSaveTimer: <<>> or <<handle>>
    currentSession, \* SessionPersistence.currentSession: <<>> or <<session>>
    timers,         \* the interval handles armed in the runtime
    retryPc,        \* where withRetry stands: "idle", "try", "sleep", "returned", "raised"
    attempt,        \* withRetry's loop variable
    lastError,      \* withRetry's lastError: <<>> (undefined) or <<error>>
    outcomes,       \* how the operation's invocations of this call have settled, in order
    sleeping,       \* <<delay>> while withRetry awaits sleep(delay), else <<>>
    retryResult,    \* <<>> or <<r>>: how the withRetry call has settled
    request,        \* <<>> or <<the request POST /api/parse-jd is serving or has served>>
    response        \* <<>> while the route is at work, else <<the response it returned>>

vars == <<session, now, issued, thrown, restored,
          window, localStorage, autoSaveTimer, currentSession, timers,
          retryPc, attempt, lastError, outcomes, sleeping, retryResult,
          request, response>>

routeVars == <<request, response>>

\* what neither the session manager nor the storage layer touches
retryVars == <<retryPc, attempt, lastError, outcomes, sleeping, retryResult, routeVars>>

\* what the session manager and the codec never touch
persistVars == <<window, localStorage, autoSaveTimer, currentSession, timers>>

---------------------------------------------------------------------------
(* Bounds of the model *)

MaxQuestions == 2
MaxClock == 1
MaxSessions == 2

(* Inputs *)

QuestionIds == {"q1", "q2"}
UnknownId == "q9"
AnyIds == QuestionIds \cup {UnknownId}
FeedbackIds == {"q1", UnknownId}
Texts == {"t1", "t2"}
SessionIds == <<"s1", "s2", "s3", "s4">>
Indexes == (0 - 1) .. MaxQuestions

Question(qid) == [id |-> qid]

\* The question lists createSession can be handed: any length from 0, ids that
\* may repeat.  Ids are opaque tokens, so a list is taken up to renaming: its
\* first question is the one called "q1".
QuestionLists ==
    {qs \in UNION {[1..n -> {Question(q) : q \in QuestionIds}] : n \in 0..MaxQuestions} :
        qs # <<>> => qs[1].id = "q1"}

ParsedJDs ==
    {[roleType |-> "software", experienceLevel |-> "mid"],
     [roleType |-> "devops", experienceLevel |-> "senior"]}

\* the AnswerFeedback values the feedback collaborator hands over, each with
\* the timestamp it was given there
FeedbackTimestamps == {1}
Feedbacks ==
    {[questionId |-> q, score |-> 8, strengths |-> <<"a", "b">>,
      improvements |-> <<"c", "d">>, timestamp |-> ts] :
        q \in FeedbackIds, ts \in FeedbackTimestamps}

SessionFeedbacks == {[overallScore |-> 7]}

InvalidDate == 0 - 1

---------------------------------------------------------------------------
(* Results of operations that can throw *)

Ok(v) == [ok |-> TRUE, value |-> v, error |-> "none"]
Throw(msg) == [ok |-> FALSE, value |-> <<>>, error |-> msg]

\* the messages of the errors the manager throws
NotFound == "Question not found in session"
InvalidIndex == "Invalid question index"
AtLast == "Already at the last question"
AtFirst == "Already at the first question"

(* JS Map<K, V> *)

MapKeys(m) == {m[i][1] : i \in 1..Len(m)}
MapHas(m, k) == k \in MapKeys(m)
MapIndex(m, k) == CHOOSE i \in 1..Len(m) : m[i][1] = k
\* Map.prototype.get: <<>> stands for undefined
MapGet(m, k) == IF MapHas(m, k) THEN <<m[MapIndex(m, k)][2]>> ELSE <<>>
\* Map.prototype.set: an existing key keeps its position, a new key is appended
MapSet(m, k, v) ==
    IF MapHas(m, k)
    THEN [m EXCEPT ![MapIndex(m, k)] = <<k, v>>]
    ELSE Append(m, <<k, v>>)
\* new Map(iterable of pairs)
RECURSIVE MapFrom(_)
MapFrom(pairs) ==
    IF pairs = <<>> THEN <<>>
    ELSE LET n == Len(pairs)
         IN MapSet(MapFrom(SubSeq(pairs, 1, n - 1)), pairs[n][1], pairs[n][2])

QuestionIdsOf(s) == {s.questions[i].id : i \in 1..Len(s.questions)}

---------------------------------------------------------------------------
(* SessionManager *)

\* createSession handing every session the same identifier
createSession_FixedId(parsedJD, questions, id, date) ==
    [id |-> "s1",
     parsedJD |-> parsedJD,
     questions |-> questions,
     answers |-> <<>>,
     feedback |-> <<>>,
     sessionFeedback |-> <<>>,
     currentQuestionIndex |-> 0,
     isComplete |-> FALSE,
     createdAt |-> date,
     completedAt |-> <<>>]

createSession(parsedJD, questions, id, date) ==
    [id |-> id,
     parsedJD |-> parsedJD,
     questions |-> questions,
     answers |-> <<>>,
     feedback |-> <<>>,
     sessionFeedback |-> <<>>,
     currentQuestionIndex |-> 0,
     isComplete |-> FALSE,
     createdAt |-> date,
     completedAt |-> <<>>]

\* storeAnswer that opens a completed session again
storeAnswer_Reopens(s, questionId, answer) ==
    IF \A i \in 1..Len(s.questions) : s.questions[i].id # questionId
    THEN Throw(NotFound)
    ELSE Ok([s EXCEPT !.answers = MapSet(s.answers, questionId, answer),
                      !.isComplete = FALSE])

\* storeAnswer without the check that the question exists
storeAnswer_Unchecked(s, questionId, answer) ==
    Ok([s EXCEPT !.answers = MapSet(s.answers, questionId, answer)])

\* storeAnswer pushing a new pair instead of setting the key
storeAnswer_Append(s, questionId, answer) ==
    IF \A i \in 1..Len(s.questions) : s.questions[i].id # questionId
    THEN Throw(NotFound)
    ELSE Ok([s EXCEPT !.answers = Append(s.answers, <<questionId, answer>>)])

storeAnswer(s, questionId, answer) ==
    LET questionExists == \E i \in 1..Len(s.questions) : s.questions[i].id = questionId
    IN IF ~questionExists
       THEN Throw(NotFound)
       ELSE Ok([s EXCEPT !.answers = MapSet(s.answers, questionId, answer)])

getAnswer(s, questionId) == MapGet(s.answers, questionId)

\* storeFeedback pushing a new pair instead of setting the key
storeFeedback_Append(s, fb) ==
    Ok([s EXCEPT !.feedback = Append(s.feedback, <<fb.questionId, fb>>)])

storeFeedback(s, fb) ==
    Ok([s EXCEPT !.feedback = MapSet(s.feedback, fb.questionId, fb)])

getFeedback(s, questionId) == MapGet(s.feedback, questionId)

\* setCurrentQuestionIndex with "index > length" for "index >= length"
setCurrentQuestionIndex_OffByOne(s, index) ==
    IF index < 0 \/ index > Len(s.questions)
    THEN Throw(InvalidIndex)
    ELSE Ok([s EXCEPT !.currentQuestionIndex = index])

\* setCurrentQuestionIndex without the check for a negative index
setCurrentQuestionIndex_NoLowerBound(s, index) ==
    IF index >= Len(s.questions)
    THEN Throw(InvalidIndex)
    ELSE Ok([s EXCEPT !.currentQuestionIndex = index])

setCurrentQuestionIndex(s, index) ==
    IF index < 0 \/ index >= Len(s.questions)
    THEN Throw(InvalidIndex)
    ELSE Ok([s EXCEPT !.currentQuestionIndex = index])

\* completeSession setting the flag and not the timestamp
completeSession_FlagOnly(s, date) == Ok([s EXCEPT !.isComplete = TRUE])

completeSession(s, date) ==
    Ok([s EXCEPT !.isComplete = TRUE, !.completedAt = <<date>>])

\* areAllQuestionsAnswered counting the feedback association
areAllQuestionsAnswered_CountsFeedback(s) == Len(s.feedback) = Len(s.questions)

areAllQuestionsAnswered(s) == Len(s.answers) = Len(s.questions)

\* storeSessionFeedback that also marks the session complete
storeSessionFeedback_Completes(s, sf) ==
    Ok([s EXCEPT !.sessionFeedback = <<sf>>, !.isComplete = TRUE])

storeSessionFeedback(s, sf) == Ok([s EXCEPT !.sessionFeedback = <<sf>>])

\* nextQuestion with "nextIndex > length" for "nextIndex >= length"
nextQuestion_OffByOne(s) ==
    LET nextIndex == s.currentQuestionIndex + 1
    IN IF nextIndex > Len(s.questions)
       THEN Throw(AtLast)
       ELSE setCurrentQuestionIndex(s, nextIndex)

nextQuestion(s) ==
    LET nextIndex == s.currentQuestionIndex + 1
    IN IF nextIndex >= Len(s.questions)
       THEN Throw(AtLast)
       ELSE setCurrentQuestionIndex(s, nextIndex)

previousQuestion(s) ==
    LET prevIndex == s.currentQuestionIndex - 1
    IN IF prevIndex < 0
       THEN Throw(AtFirst)
       ELSE setCurrentQuestionIndex(s, prevIndex)

---------------------------------------------------------------------------
(* Serialization codec.  A JSON text is modelled by what JSON.parse makes of *)
(* it: whether it is well formed, what kind of value it holds, which keys   *)
(* the object has, and the value under each key.                            *)

FieldNames ==
    {"id", "parsedJD", "questions", "answers", "feedback", "sessionFeedback",
     "currentQuestionIndex", "isComplete", "createdAt", "completedAt"}

\* Date.prototype.toISOString: a string that stands for a valid instant
toISOString(d) == <<"iso", d>>
\* new Date(string).getTime(): the instant, NaN for any other string
DateParse(str) == IF Len(str) = 2 /\ str[1] = "iso" THEN str[2] ELSE InvalidDate
\* two strings that are no date: a non-empty one, and the empty string (falsy)
BadDateStr == <<"not-a-date">>
EmptyStr == <<"">>

SerializableAnswerFeedback(fb) ==
    [questionId |-> fb.questionId, score |-> fb.score, strengths |-> fb.strengths,
     improvements |-> fb.improvements, timestamp |-> toISOString(fb.timestamp)]

serializeSession(s) ==
    IF \/ s.createdAt = InvalidDate
       \/ s.completedAt = <<InvalidDate>>
       \/ \E i \in 1..Len(s.feedback) : s.feedback[i][2].timestamp = InvalidDate
    THEN Throw("RangeError: Invalid time value")
    ELSE Ok([wellFormed |-> TRUE,
             kind |-> "object",
             fields |-> FieldNames,
             id |-> s.id,
             parsedJD |-> s.parsedJD,
             questions |-> s.questions,
             questionsIsArray |-> TRUE,
             answers |-> [i \in 1..Len(s.answers) |-> s.answers[i]],
             feedback |-> [i \in 1..Len(s.feedback) |->
                 <<s.feedback[i][1], SerializableAnswerFeedback(s.feedback[i][2])>>],
             sessionFeedback |-> s.sessionFeedback,
             currentQuestionIndex |-> s.currentQuestionIndex,
             isComplete |-> s.isComplete,
             createdAt |-> toISOString(s.createdAt),
             completedAt |-> IF s.completedAt # <<>>
                             THEN <<toISOString(s.completedAt[1])>>
                             ELSE <<>>])

\* the feedback entry rebuilt from a misspelt key: new Date(undefined)
DeserializedAnswerFeedback_NoTimestamp(fb) ==
    [questionId |-> fb.questionId, score |-> fb.score, strengths |-> fb.strengths,
     improvements |-> fb.improvements, timestamp |-> InvalidDate]

DeserializedAnswerFeedback(fb) ==
    [questionId |-> fb.questionId, score |-> fb.score, strengths |-> fb.strengths,
     improvements |-> fb.improvements, timestamp |-> DateParse(fb.timestamp)]

\* the messages of the errors deserializeSession throws
InvalidJson == "Failed to deserialize session: Invalid JSON format"
NullRead == "Failed to deserialize session: Cannot read properties of null"
MissingFields == "Failed to deserialize session: Invalid session data: missing required fields"
BadCreatedAt == "Failed to deserialize session: Invalid session data: createdAt is not a valid date"
BadCompletedAt == "Failed to deserialize session: Invalid session data: completedAt is not a valid date"

deserializeSession(json) ==
    IF ~json.wellFormed
    THEN Throw(InvalidJson)
    ELSE IF json.kind = "null"
    THEN Throw(NullRead)
    ELSE IF \/ json.kind # "object"
            \/ "id" \notin json.fields \/ json.id = ""
            \/ "parsedJD" \notin json.fields
            \/ "questions" \notin json.fields
            \/ ~json.questionsIsArray
    THEN Throw(MissingFields)
    ELSE
    LET answers == MapFrom(IF "answers" \in json.fields THEN json.answers ELSE <<>>)
        fbPairs == IF "feedback" \in json.fields THEN json.feedback ELSE <<>>
        feedback == MapFrom([i \in 1..Len(fbPairs) |->
                       <<fbPairs[i][1], DeserializedAnswerFeedback(fbPairs[i][2])>>])
        createdAt == IF "createdAt" \in json.fields
                     THEN DateParse(json.createdAt) ELSE InvalidDate
        hasCompletedAt == /\ "completedAt" \in json.fields
                          /\ json.completedAt # <<>>
                          /\ json.completedAt[1] # EmptyStr
        completedAt == IF hasCompletedAt THEN <<DateParse(json.completedAt[1])>> ELSE <<>>
    IN IF createdAt = InvalidDate
       THEN Throw(BadCreatedAt)
       ELSE IF hasCompletedAt /\ completedAt = <<InvalidDate>>
       THEN Throw(BadCompletedAt)
       ELSE Ok([id |-> json.id,
                parsedJD |-> json.parsedJD,
                questions |-> json.questions,
                answers |-> answers,
                feedback |-> feedback,
                sessionFeedback |-> IF "sessionFeedback" \in json.fields
                                    THEN json.sessionFeedback ELSE <<>>,
                currentQuestionIndex |-> IF "currentQuestionIndex" \in json.fields
                                         THEN json.currentQuestionIndex ELSE 0,
                isComplete |-> IF "isComplete" \in json.fields
                               THEN json.isComplete ELSE FALSE,
                createdAt |-> createdAt,
                completedAt |-> completedAt])

---------------------------------------------------------------------------
(* Storage: the functions over localStorage.  The store is a record with   *)
(* one field per key of STORAGE_KEYS: session[id] for the key of session   *)
(* id, current for the current-session pointer, history for the history    *)
(* list; a key that is not set holds <<>>.  A setItem call can throw       *)
(* QuotaExceededError: the fault argument says which call of the operation *)
(* does.  An operation that writes returns [ok, value, error, store].      *)

StoreIds == {"s1", "s2"}

\* which setItem call of one operation the browser rejects for lack of space
NoFault == "none"
QuotaFaults == {NoFault, "first", "second"}

Done(ls) == [ok |-> TRUE, value |-> <<>>, error |-> "none", store |-> ls]
Raised(ls, msg) == [ok |-> FALSE, value |-> <<>>, error |-> msg, store |-> ls]

\* the messages of the errors the storage functions throw
ServerSide == "Local storage is not available in server-side context"
QuotaExceeded == "Failed to save session: Local storage quota exceeded"
NotAFunction == "TypeError: history.forEach is not a function"

EmptyStorage ==
    [session |-> [id \in StoreIds |-> <<>>], current |-> <<>>, history |-> <<>>]

(* JSON texts that no serializer wrote *)
Malformed == [wellFormed |-> FALSE]
JsonNull == [wellFormed |-> TRUE, kind |-> "null"]
JsonNumber == [wellFormed |-> TRUE, kind |-> "number"]
JsonEmptyObject == [wellFormed |-> TRUE, kind |-> "object", fields |-> {}]

\* JSON.stringify of an array, and the array literal []
JSONstringifyArray(items) == [wellFormed |-> TRUE, kind |-> "array", items |-> items]
EmptyArray == JSONstringifyArray(<<>>)
\* JSON.parse: the value is the text seen as what it denotes
JSONparse(text) == IF text.wellFormed THEN Ok(text) ELSE Throw("SyntaxError")
IsArray(v) == v.kind = "array"

\* saveSession writing the session key and not the current-session pointer
saveSession_NoPointer(w, ls, s, fault) ==
    IF ~w THEN Raised(ls, ServerSide)
    ELSE LET serialized == serializeSession(s)
         IN IF ~serialized.ok THEN Raised(ls, serialized.error)
            ELSE IF fault = "first" THEN Raised(ls, QuotaExceeded)
            ELSE Done([ls EXCEPT !.session[s.id] = <<serialized.value>>])

\* saveSession setting the pointer before it writes the entry
saveSession_PointerFirst(w, ls, s, fault) ==
    IF ~w THEN Raised(ls, ServerSide)
    ELSE LET serialized == serializeSession(s)
         IN IF ~serialized.ok THEN Raised(ls, serialized.error)
            ELSE IF fault = "first" THEN Raised(ls, QuotaExceeded)
            ELSE LET ls1 == [ls EXCEPT !.current = <<s.id>>]
                 IN IF fault = "second" THEN Raised(ls1, QuotaExceeded)
                    ELSE Done([ls1 EXCEPT !.session[s.id] = <<serialized.value>>])

saveSession(w, ls, s, fault) ==
    IF ~w THEN Raised(ls, ServerSide)
    ELSE LET serialized == serializeSession(s)
         IN IF ~serialized.ok THEN Raised(ls, serialized.error)
            ELSE IF fault = "first" THEN Raised(ls, QuotaExceeded)
            ELSE LET ls1 == [ls EXCEPT !.session[s.id] = <<serialized.value>>]
                 IN IF fault = "second" THEN Raised(ls1, QuotaExceeded)
                    ELSE Done([ls1 EXCEPT !.current = <<s.id>>])

\* loadSession without its try/catch
loadSession_Propagating(w, ls, sessionId) ==
    IF ~w THEN Ok(<<>>)
    ELSE LET serialized == ls.session[sessionId]
         IN IF serialized = <<>> THEN Ok(<<>>)
            ELSE LET r == deserializeSession(serialized[1])
                 IN IF r.ok THEN Ok(<<r.value>>) ELSE r

loadSession(w, ls, sessionId) ==
    IF ~w THEN Ok(<<>>)
    ELSE LET serialized == ls.session[sessionId]
         IN IF serialized = <<>> THEN Ok(<<>>)
            ELSE LET r == deserializeSession(serialized[1])
                 IN IF r.ok THEN Ok(<<r.value>>) ELSE Ok(<<>>)

getCurrentSessionId(w, ls) == IF ~w THEN <<>> ELSE ls.current

loadCurrentSession(w, ls) ==
    LET sessionId == getCurrentSessionId(w, ls)
    IN IF sessionId = <<>> THEN Ok(<<>>) ELSE loadSession(w, ls, sessionId[1])

clearCurrentSession(w, ls) ==
    IF ~w THEN Done(ls) ELSE Done([ls EXCEPT !.current = <<>>])

deleteSession(w, ls, sessionId) ==
    IF ~w THEN Done(ls) ELSE Done([ls EXCEPT !.session[sessionId] = <<>>])

getSessionHistory(w, ls) ==
    IF ~w THEN Ok(EmptyArray)
    ELSE IF ls.history = <<>> THEN Ok(EmptyArray)
    ELSE LET parsed == JSONparse(ls.history[1])
         IN IF parsed.ok THEN Ok(parsed.value) ELSE Ok(EmptyArray)

SessionHistoryEntry(s) ==
    [id |-> s.id,
     roleType |-> s.parsedJD.roleType,
     experienceLevel |-> s.parsedJD.experienceLevel,
     createdAt |-> toISOString(s.createdAt),
     completedAt |-> IF s.completedAt # <<>>
                     THEN <<toISOString(s.completedAt[1])>> ELSE <<>>,
     overallScore |-> IF s.sessionFeedback # <<>>
                      THEN <<s.sessionFeedback[1].overallScore>> ELSE <<>>]

\* Array.prototype.findIndex by entry id: 0 stands for -1
FindIndex(items, id) ==
    IF \E i \in 1..Len(items) : items[i].id = id
    THEN CHOOSE i \in 1..Len(items) :
             items[i].id = id /\ \A j \in 1..(i - 1) : items[j].id # id
    ELSE 0

\* saveSessionToHistory pushing the entry whether or not the id is present
saveSessionToHistory_AlwaysPush(w, ls, s, fault) ==
    IF ~w THEN Done(ls)
    ELSE LET history == getSessionHistory(w, ls).value
         IN IF ~IsArray(history) THEN Done(ls)
            ELSE IF s.createdAt = InvalidDate \/ s.completedAt = <<InvalidDate>>
            THEN Done(ls)
            ELSE IF fault # NoFault THEN Done(ls)
            ELSE Done([ls EXCEPT !.history = <<JSONstringifyArray(
                          Append(history.items, SessionHistoryEntry(s)))>>])

\* every error inside is caught and logged: the TypeError of findIndex on a
\* value that is no array, the RangeError of toISOString, the quota error
saveSessionToHistory(w, ls, s, fault) ==
    IF ~w THEN Done(ls)
    ELSE LET history == getSessionHistory(w, ls).value
         IN IF ~IsArray(history) THEN Done(ls)
            ELSE IF s.createdAt = InvalidDate \/ s.completedAt = <<InvalidDate>>
            THEN Done(ls)
            ELSE LET existingIndex == FindIndex(history.items, s.id)
                     updated == IF existingIndex >= 1
                                THEN [history.items EXCEPT
                                         ![existingIndex] = SessionHistoryEntry(s)]
                                ELSE Append(history.items, SessionHistoryEntry(s))
                 IN IF fault # NoFault THEN Done(ls)
                    ELSE Done([ls EXCEPT !.history = <<JSONstringifyArray(updated)>>])

clearAllSessions(w, ls) ==
    IF ~w THEN Done(ls)
    ELSE LET history == getSessionHistory(w, ls).value
         IN IF ~IsArray(history) THEN Raised(ls, NotAFunction)
            ELSE Done([session |-> [id \in StoreIds |->
                           IF \E i \in 1..Len(history.items) : history.items[i].id = id
                           THEN <<>> ELSE ls.session[id]],
                       current |-> <<>>,
                       history |-> <<>>])

---------------------------------------------------------------------------
(* SessionPersistence: the coordinator.  Its operations act on a world     *)
(* [store, timers, autoSaveTimer, currentSession]: the store, the interval *)
(* handles armed in the runtime, and the two fields of the object.  Each   *)
(* returns [ok, value, error, world].                                      *)

MaxTimers == 2

CDone(c) == [ok |-> TRUE, value |-> <<>>, error |-> "none", world |-> c]
CReturn(c, v) == [ok |-> TRUE, value |-> v, error |-> "none", world |-> c]
CRaised(c, msg) == [ok |-> FALSE, value |-> <<>>, error |-> msg, world |-> c]

\* setInterval: a handle no armed interval has
NewHandle(ts) ==
    CHOOSE h \in 1..(Cardinality(ts) + 1) :
        h \notin ts /\ \A k \in 1..(h - 1) : k \in ts

\* stopAutoSave that forgets the handle without clearInterval
stopAutoSave_ForgetsHandle(c) == [c EXCEPT !.autoSaveTimer = <<>>]

stopAutoSave(c) ==
    IF c.autoSaveTimer # <<>>
    THEN [c EXCEPT !.timers = @ \ {c.autoSaveTimer[1]}, !.autoSaveTimer = <<>>]
    ELSE c

\* an interval callback that skips the save
intervalCallback_Idle(w, c, fault) == CDone(c)

\* the callback startAutoSave hands to setInterval
intervalCallback(w, c, fault) ==
    IF c.currentSession # <<>>
    THEN CDone([c EXCEPT !.store = saveSession(w, c.store, c.currentSession[1], fault).store])
    ELSE CDone(c)

\* startAutoSave that arms a timer without clearing the one armed before
startAutoSave_NoStop(w, c, s, fault) ==
    LET c2 == [c EXCEPT !.currentSession = <<s>>]
        h == NewHandle(c2.timers)
        c3 == [c2 EXCEPT !.timers = @ \cup {h}, !.autoSaveTimer = <<h>>]
    IN CDone([c3 EXCEPT !.store = saveSession(w, c3.store, s, fault).store])

\* startAutoSave that lets the error of its immediate save escape
startAutoSave_Rethrow(w, c, s, fault) ==
    LET c1 == stopAutoSave(c)
        c2 == [c1 EXCEPT !.currentSession = <<s>>]
        h == NewHandle(c2.timers)
        c3 == [c2 EXCEPT !.timers = @ \cup {h}, !.autoSaveTimer = <<h>>]
        saved == saveSession(w, c3.store, s, fault)
    IN IF saved.ok
       THEN CDone([c3 EXCEPT !.store = saved.store])
       ELSE CRaised([c3 EXCEPT !.store = saved.store], saved.error)

startAutoSave(w, c, s, fault) ==
    LET c1 == stopAutoSave(c)
        c2 == [c1 EXCEPT !.currentSession = <<s>>]
        h == NewHandle(c2.timers)
        c3 == [c2 EXCEPT !.timers = @ \cup {h}, !.autoSaveTimer = <<h>>]
    IN CDone([c3 EXCEPT !.store = saveSession(w, c3.store, s, fault).store])

\* updateSession that does not record the value it is handed
updateSession_Ignored(w, c, s) == CDone(c)

updateSession(w, c, s) == CDone([c EXCEPT !.currentSession = <<s>>])

saveCurrentSession(w, c, fault) ==
    IF c.currentSession # <<>>
    THEN LET saved == saveSession(w, c.store, c.currentSession[1], fault)
         IN IF saved.ok
            THEN CDone([c EXCEPT !.store = saved.store])
            ELSE CRaised([c EXCEPT !.store = saved.store], saved.error)
    ELSE CDone(c)

restoreSession(w, c, sessionId, fault) ==
    LET loaded == loadSession(w, c.store, sessionId)
    IN IF ~loaded.ok THEN CReturn(c, <<>>)
       ELSE IF loaded.value # <<>>
       THEN LET c1 == [c EXCEPT !.currentSession = loaded.value]
            IN CReturn(startAutoSave(w, c1, loaded.value[1], fault).world, loaded.value)
       ELSE CReturn(c, <<>>)

\* restoreCurrentSession that hands the session back without adopting it
restoreCurrentSession_NoAdopt(w, c, fault) ==
    LET loaded == loadCurrentSession(w, c.store)
    IN IF ~loaded.ok THEN CReturn(c, <<>>) ELSE CReturn(c, loaded.value)

restoreCurrentSession(w, c, fault) ==
    LET loaded == loadCurrentSession(w, c.store)
    IN IF ~loaded.ok THEN CReturn(c, <<>>)
       ELSE IF loaded.value # <<>>
       THEN LET c1 == [c EXCEPT !.currentSession = loaded.value]
            IN CReturn(startAutoSave(w, c1, loaded.value[1], fault).world, loaded.value)
       ELSE CReturn(c, <<>>)

\* the results of the storage calls completeSession makes, in the order it
\* makes them, with the history write moved before the session save
completeSessionWrites_HistoryFirst(w, ls, s, saveFault, historyFault) ==
    LET hist == saveSessionToHistory(w, ls, s, historyFault)
        saved == saveSession(w, hist.store, s, saveFault)
    IN IF ~saved.ok THEN <<hist, saved>>
       ELSE <<hist, saved, clearCurrentSession(w, saved.store)>>

\* the storage calls of completeSession, the last one removing the session's
\* own entry together with the pointer
completeSessionWrites_DropsEntry(w, ls, s, saveFault, historyFault) ==
    LET saved == saveSession(w, ls, s, saveFault)
    IN IF ~saved.ok THEN <<saved>>
       ELSE LET hist == saveSessionToHistory(w, saved.store, s, historyFault)
            IN <<saved, hist,
                 deleteSession(w, clearCurrentSession(w, hist.store).store, s.id)>>

\* the results of the storage calls completeSession makes, in the order it
\* makes them: saveSession, saveSessionToHistory, clearCurrentSession
completeSessionWrites(w, ls, s, saveFault, historyFault) ==
    LET saved == saveSession(w, ls, s, saveFault)
    IN IF ~saved.ok THEN <<saved>>
       ELSE LET hist == saveSessionToHistory(w, saved.store, s, historyFault)
            IN <<saved, hist, clearCurrentSession(w, hist.store)>>

\* completeSession that leaves the timer armed
SessionPersistence_completeSession_KeepsTimer(w, c, s, saveFault, historyFault) ==
    LET writes == completeSessionWrites(w, c.store, s, saveFault, historyFault)
        last == writes[Len(writes)]
    IN IF ~last.ok
       THEN CRaised([c EXCEPT !.store = last.store], last.error)
       ELSE CDone([c EXCEPT !.store = last.store, !.currentSession = <<>>])

SessionPersistence_completeSession(w, c, s, saveFault, historyFault) ==
    LET writes == completeSessionWrites(w, c.store, s, saveFault, historyFault)
        last == writes[Len(writes)]
    IN IF ~last.ok
       THEN CRaised([c EXCEPT !.store = last.store], last.error)
       ELSE CDone([stopAutoSave([c EXCEPT !.store = last.store])
                      EXCEPT !.currentSession = <<>>])

getHistory(w, c) == CReturn(c, getSessionHistory(w, c.store).value)

loadFromHistory(w, c, sessionId) ==
    LET loaded == loadSession(w, c.store, sessionId)
    IN IF loaded.ok THEN CReturn(c, loaded.value) ELSE CRaised(c, loaded.error)

\* hasSessionInProgress that does not look at isComplete
hasSessionInProgress_AnyLoaded(w, c) ==
    LET loaded == loadCurrentSession(w, c.store)
    IN IF loaded.ok
       THEN CReturn(c, loaded.value # <<>>)
       ELSE CRaised(c, loaded.error)

hasSessionInProgress(w, c) ==
    LET loaded == loadCurrentSession(w, c.store)
    IN IF loaded.ok
       THEN CReturn(c, loaded.value # <<>> /\ ~loaded.value[1].isComplete)
       ELSE CRaised(c, loaded.error)

clearSession(w, c) ==
    LET c1 == [stopAutoSave(c) EXCEPT !.currentSession = <<>>]
    IN CDone([c1 EXCEPT !.store = clearCurrentSession(w, c1.store).store])

cleanup(w, c, fault) ==
    LET c1 == IF c.currentSession # <<>>
              THEN [c EXCEPT !.store = saveSession(w, c.store, c.currentSession[1], fault).store]
              ELSE c
    IN CDone(stopAutoSave(c1))

---------------------------------------------------------------------------
(* withRetry (src/lib/openai-client.ts) *)

maxAttempts == 3
baseDelay == 1000
maxDelay == 10000

\* a settled promise: fulfilled with a value or rejected with an error
Fulfilled(v) == [ok |-> TRUE, value |-> <<v>>, error |-> <<>>]
Failed(e) == [ok |-> FALSE, value |-> <<>>, error |-> <<e>>]

\* what an operation may throw: an error with a status, with a code, with
\* both, or with neither (any other value: error?.status is undefined)
ApiError(status, code) == [status |-> status, code |-> code]
Statuses == {400, 429, 499, 500, 599, 600}
Codes == {"ETIMEDOUT", "ECONNABORTED", "ECONNRESET", "ENOTFOUND", "ECONNREFUSED", "EPIPE"}
Errors ==
    {ApiError(<<st>>, <<>>) : st \in Statuses}
        \cup {ApiError(<<>>, <<cd>>) : cd \in Codes}
        \cup {ApiError(<<400>>, <<"ETIMEDOUT">>), ApiError(<<>>, <<>>)}
\* what the operation may return: a chat completion whose first choice has
\* no content (<<>>), or a content that is empty, no JSON, JSON off the
\* response schema, or JSON on it
Content(empty, wellFormed, onSchema) ==
    <<[empty |-> empty, wellFormed |-> wellFormed, onSchema |-> onSchema]>>
Contents ==
    {<<>>, Content(TRUE, FALSE, FALSE), Content(FALSE, FALSE, FALSE),
     Content(FALSE, TRUE, FALSE), Content(FALSE, TRUE, TRUE)}
Values == {[content |-> c] : c \in Contents}

\* Math.pow(2, n) for the whole n >= 0 the loop variable gives
RECURSIVE Pow2(_)
Pow2(n) == IF n <= 0 THEN 1 ELSE 2 * Pow2(n - 1)

getBackoffDelay(n) ==
    LET delay == baseDelay * Pow2(n - 1)
    IN IF delay < maxDelay THEN delay ELSE maxDelay

\* isRetryableError that takes every error for a transient one
isRetryableError_Always(error) == TRUE

isRetryableError(error) ==
    IF error.status = <<429>> THEN TRUE
    ELSE IF error.code = <<"ETIMEDOUT">> \/ error.code = <<"ECONNABORTED">> THEN TRUE
    ELSE IF error.status # <<>> /\ error.status[1] >= 500 /\ error.status[1] < 600 THEN TRUE
    ELSE IF error.code = <<"ECONNRESET">> \/ error.code = <<"ENOTFOUND">>
            \/ error.code = <<"ECONNREFUSED">> THEN TRUE
    ELSE FALSE

\* new OpenAIError(message, originalError) with the retryable flag left out
OpenAIError_DefaultFlag(attempts, originalError, retryable) ==
    [name |-> "OpenAIError", attempts |-> attempts,
     originalError |-> originalError, retryable |-> FALSE]

\* new OpenAIError(message, originalError, retryable); the message names the
\* number of attempts made
OpenAIError(attempts, originalError, retryable) ==
    [name |-> "OpenAIError", attempts |-> attempts,
     originalError |-> originalError, retryable |-> retryable]

\* no withRetry call has been made, no request received
NotRetrying ==
    /\ retryPc = "idle"
    /\ attempt = 0
    /\ lastError = <<>>
    /\ outcomes = <<>>
    /\ sleeping = <<>>
    /\ retryResult = <<>>
    /\ request = <<>>
    /\ response = <<>>

---------------------------------------------------------------------------
(* POST /api/parse-jd (src/unnamed/part_002) *)

\* the requests the route may receive: a body that is no JSON, one whose
\* jobDescription is missing or shorter than 50 characters, or a valid one;
\* OPENAI_API_KEY set in the environment or not
Requests ==
    {[body |-> b, apiKey |-> k] : b \in {"unparsable", "short", "valid"}, k \in BOOLEAN}

\* an error that is no OpenAIError: its name, no cause, no retryable flag read
Thrown(name) ==
    [name |-> name, attempts |-> 0, originalError |-> <<>>, retryable |-> FALSE]

\* NextResponse.json({error, ..., details: {retryable}}, {status})
Response(status, error, retryable) ==
    [status |-> status, error |-> error, retryable |-> retryable]

\* parseJobDescription after withRetry has returned completion; onSchema
\* stands for passing both OpenAIResponseSchema and the final
\* ParsedJobDescriptionSchema, whose failures throw the same kind of error
ParseCompletion(completion) ==
    LET responseContent == completion.content
    IN IF responseContent = <<>> \/ responseContent[1].empty
       THEN Failed(OpenAIError(0, <<>>, TRUE))
       ELSE IF ~responseContent[1].wellFormed
       THEN Failed(OpenAIError(0, <<ApiError(<<>>, <<>>)>>, FALSE))
       ELSE IF ~responseContent[1].onSchema
       THEN Failed(OpenAIError(0, <<ApiError(<<>>, <<>>)>>, FALSE))
       ELSE Fulfilled(completion)

\* the catch block of POST
CaughtResponse(error) ==
    IF error.name = "ValidationError" THEN Response(400, "ValidationError", <<>>)
    ELSE IF error.name = "OpenAIError"
    THEN IF error.originalError # <<>> /\ error.originalError[1].status = <<429>>
         THEN Response(429, "RateLimitError", <<TRUE>>)
         ELSE IF error.originalError # <<>>
                 /\ (\/ error.originalError[1].code = <<"ETIMEDOUT">>
                     \/ error.originalError[1].code = <<"ECONNABORTED">>)
         THEN Response(504, "TimeoutError", <<TRUE>>)
         ELSE Response(503, "OpenAIError", <<error.retryable>>)
    ELSE Response(500, "InternalServerError", <<>>)

\* POST from the return of withRetry on: r is how withRetry settled
RouteResult(r) ==
    IF ~r.ok THEN CaughtResponse(r.error[1])
    ELSE LET parsed == ParseCompletion(r.value[1])
         IN IF parsed.ok THEN Response(200, "none", <<>>)
            ELSE CaughtResponse(parsed.error[1])

---------------------------------------------------------------------------
(* The calls a client makes *)

\* the caller keeps its session value when the call throws
Returned(r) == IF r.ok THEN r.value ELSE session

Init ==
    /\ now = 0
    /\ issued = 1
    /\ \E jd \in ParsedJDs, qs \in QuestionLists :
           session = createSession(jd, qs, SessionIds[1], 0)
    /\ thrown = "none"
    /\ restored = <<>>
    /\ window = TRUE
    /\ localStorage = EmptyStorage
    /\ autoSaveTimer = <<>>
    /\ currentSession = <<>>
    /\ timers = {}
    /\ NotRetrying

CreateSession ==
    /\ issued < MaxSessions
    /\ \E jd \in ParsedJDs, qs \in QuestionLists :
           session' = createSession(jd, qs, SessionIds[issued + 1], now)
    /\ issued' = issued + 1
    /\ thrown' = "none"
    /\ restored' = <<>>
    /\ UNCHANGED now
    /\ UNCHANGED <<persistVars, retryVars>>

StoreAnswer ==
    /\ \E q \in AnyIds, t \in Texts :
           LET r == storeAnswer(session, q, t)
           IN session' = Returned(r) /\ thrown' = r.error
    /\ restored' = <<>>
    /\ UNCHANGED <<now, issued>>
    /\ UNCHANGED <<persistVars, retryVars>>

StoreFeedback ==
    /\ \E fb \in Feedbacks :
           LET r == storeFeedback(session, fb)
           IN session' = Returned(r) /\ thrown' = r.error
    /\ restored' = <<>>
    /\ UNCHANGED <<now, issued>>
    /\ UNCHANGED <<persistVars, retryVars>>

SetCurrentQuestionIndex ==
    /\ \E i \in Indexes :
           LET r == setCurrentQuestionIndex(session, i)
           IN session' = Returned(r) /\ thrown' = r.error
    /\ restored' = <<>>
    /\ UNCHANGED <<now, issued>>
    /\ UNCHANGED <<persistVars, retryVars>>

NextQuestion ==
    /\ LET r == nextQuestion(session)
       IN session' = Returned(r) /\ thrown' = r.error
    /\ restored' = <<>>
    /\ UNCHANGED <<now, issued>>
    /\ UNCHANGED <<persistVars, retryVars>>

PreviousQuestion ==
    /\ LET r == previousQuestion(session)
       IN session' = Returned(r) /\ thrown' = r.error
    /\ restored' = <<>>
    /\ UNCHANGED <<now, issued>>
    /\ UNCHANGED <<persistVars, retryVars>>

CompleteSession ==
    /\ LET r == completeSession(session, now)
       IN session' = Returned(r) /\ thrown' = r.error
    /\ restored' = <<>>
    /\ UNCHANGED <<now, issued>>
    /\ UNCHANGED <<persistVars, retryVars>>

StoreSessionFeedback ==
    /\ \E sf \in SessionFeedbacks :
           LET r == storeSessionFeedback(session, sf)
           IN session' = Returned(r) /\ thrown' = r.error
    /\ restored' = <<>>
    /\ UNCHANGED <<now, issued>>
    /\ UNCHANGED <<persistVars, retryVars>>

\* the session is written out and read back: serialize, then deserialize
RoundTrip ==
    /\ LET w == serializeSession(session)
       IN IF w.ok
          THEN LET r == deserializeSession(w.value)
               IN restored' = <<r>> /\ thrown' = r.error
          ELSE restored' = <<>> /\ thrown' = w.error
    /\ UNCHANGED <<session, now, issued>>
    /\ UNCHANGED <<persistVars, retryVars>>

\* time passes between two calls; the clock does not run backwards
Tick ==
    /\ now < MaxClock
    /\ now' = now + 1
    /\ UNCHANGED <<session, issued, thrown, restored>>
    /\ UNCHANGED <<persistVars, retryVars>>

Next ==
    \/ CreateSession
    \/ StoreAnswer
    \/ StoreFeedback
    \/ SetCurrentQuestionIndex
    \/ NextQuestion
    \/ PreviousQuestion
    \/ CompleteSession
    \/ StoreSessionFeedback
    \/ RoundTrip
    \/ Tick

Spec == Init /\ [][Next]_vars

---------------------------------------------------------------------------
(* The calls a client makes to the storage functions and to the            *)
(* coordinator, from a page that finds localStorage as an earlier page     *)
(* load, or anything else writing to the origin's storage, left it.        *)

SampleJD == [roleType |-> "software", experienceLevel |-> "mid"]

\* a session as createSession returns it, and the same session answered,
\* completed and given its session feedback
NewSession(id) == createSession(SampleJD, <<Question("q1")>>, id, 0)
DoneSession(id) ==
    storeSessionFeedback(
        completeSession(storeAnswer(NewSession(id), "q1", "t1").value, 1).value,
        [overallScore |-> 7]).value

SampleSessions == {NewSession("s1"), DoneSession("s1"), NewSession("s2")}

\* the texts deserializeSession can be handed: what serializeSession wrote,
\* and that text damaged in one place
GoodText == serializeSession(DoneSession("s1")).value
\* a feedback entry on the wire whose timestamp is no date
BadStampFeedback ==
    [questionId |-> "q1", score |-> 8, strengths |-> <<"a", "b">>,
     improvements |-> <<"c", "d">>, timestamp |-> BadDateStr]
JsonTexts ==
    {GoodText, Malformed, JsonNull, JsonNumber, JsonEmptyObject,
     [wellFormed |-> TRUE, kind |-> "object", fields |-> {"id"}, id |-> "x"],
     [GoodText EXCEPT !.id = ""],
     [GoodText EXCEPT !.questionsIsArray = FALSE],
     [GoodText EXCEPT !.createdAt = BadDateStr],
     [GoodText EXCEPT !.completedAt = <<BadDateStr>>],
     [GoodText EXCEPT !.completedAt = <<EmptyStr>>],
     [GoodText EXCEPT !.completedAt = <<>>],
     [GoodText EXCEPT !.feedback = <<<<"q1", BadStampFeedback>>>>]}
    \cup {[GoodText EXCEPT !.fields = @ \ {f}] :
              f \in {"id", "parsedJD", "questions", "createdAt", "completedAt"}}

\* a store as a page finds it: the entry of session s1 and the history list
\* hold texts of any origin, the pointer names s1
FoundStorage(sessionText, history) ==
    [session |-> [id \in StoreIds |-> IF id = "s1" THEN <<sessionText>> ELSE <<>>],
     current |-> <<"s1">>,
     history |-> history]

InitialStorages ==
    {EmptyStorage,
     FoundStorage(Malformed, <<Malformed>>),
     FoundStorage(JsonEmptyObject, <<JsonEmptyObject>>)}
    \cup {FoundStorage(text, <<>>) : text \in JsonTexts}

managerVars == <<session, now, issued>>
coordinatorVars == <<autoSaveTimer, currentSession, timers>>

World ==
    [store |-> localStorage, timers |-> timers,
     autoSaveTimer |-> autoSaveTimer, currentSession |-> currentSession]

\* what a call that reads has handed back: the kind of value, and the value
ReadBack(kind, value) == <<[kind |-> kind, value |-> value]>>

\* a storage function has returned or thrown r
StorageCall(r) ==
    /\ localStorage' = r.store
    /\ thrown' = r.error
    /\ UNCHANGED coordinatorVars

\* a coordinator operation has returned or thrown r
CoordinatorCall(r) ==
    /\ localStorage' = r.world.store
    /\ timers' = r.world.timers
    /\ autoSaveTimer' = r.world.autoSaveTimer
    /\ currentSession' = r.world.currentSession
    /\ thrown' = r.error

StoreInit ==
    /\ session = NewSession("s1")
    /\ now = 0
    /\ issued = 1
    /\ thrown = "none"
    /\ restored = <<>>
    /\ window \in BOOLEAN
    /\ localStorage \in (IF window THEN InitialStorages ELSE {EmptyStorage})
    /\ autoSaveTimer = <<>>
    /\ currentSession = <<>>
    /\ timers = {}
    /\ NotRetrying

SaveSession ==
    /\ \E s \in SampleSessions, fault \in QuotaFaults :
           StorageCall(saveSession(window, localStorage, s, fault))
    /\ restored' = <<>>
    /\ UNCHANGED <<managerVars, retryVars, window>>

LoadSession ==
    /\ \E id \in StoreIds :
           LET r == loadSession(window, localStorage, id)
           IN restored' = ReadBack("session", r.value) /\ thrown' = r.error
    /\ UNCHANGED <<managerVars, retryVars, window, localStorage, coordinatorVars>>

LoadCurrentSession ==
    /\ LET r == loadCurrentSession(window, localStorage)
       IN restored' = ReadBack("session", r.value) /\ thrown' = r.error
    /\ UNCHANGED <<managerVars, retryVars, window, localStorage, coordinatorVars>>

ClearCurrentSession ==
    /\ StorageCall(clearCurrentSession(window, localStorage))
    /\ restored' = <<>>
    /\ UNCHANGED <<managerVars, retryVars, window>>

DeleteSession ==
    /\ \E id \in StoreIds : StorageCall(deleteSession(window, localStorage, id))
    /\ restored' = <<>>
    /\ UNCHANGED <<managerVars, retryVars, window>>

SaveSessionToHistory ==
    /\ \E s \in SampleSessions, fault \in {NoFault, "first"} :
           StorageCall(saveSessionToHistory(window, localStorage, s, fault))
    /\ restored' = <<>>
    /\ UNCHANGED <<managerVars, retryVars, window>>

GetSessionHistory ==
    /\ LET r == getSessionHistory(window, localStorage)
       IN restored' = ReadBack("history", r.value) /\ thrown' = r.error
    /\ UNCHANGED <<managerVars, retryVars, window, localStorage, coordinatorVars>>

ClearAllSessions ==
    /\ StorageCall(clearAllSessions(window, localStorage))
    /\ restored' = <<>>
    /\ UNCHANGED <<managerVars, retryVars, window>>

\* a client reads the raw entry of a session and hands it to the codec
Deserialize ==
    /\ window
    /\ \E id \in StoreIds :
           /\ localStorage.session[id] # <<>>
           /\ LET r == deserializeSession(localStorage.session[id][1])
              IN /\ restored' = ReadBack("session", IF r.ok THEN <<r.value>> ELSE <<>>)
                 /\ thrown' = r.error
    /\ UNCHANGED <<managerVars, retryVars, window, localStorage, coordinatorVars>>

StartAutoSave ==
    /\ Cardinality(timers) < MaxTimers
    /\ \E s \in SampleSessions, fault \in QuotaFaults :
           CoordinatorCall(startAutoSave(window, World, s, fault))
    /\ restored' = <<>>
    /\ UNCHANGED <<managerVars, retryVars, window>>

StopAutoSave ==
    /\ CoordinatorCall(CDone(stopAutoSave(World)))
    /\ restored' = <<>>
    /\ UNCHANGED <<managerVars, retryVars, window>>

UpdateSession ==
    /\ \E s \in SampleSessions : CoordinatorCall(updateSession(window, World, s))
    /\ restored' = <<>>
    /\ UNCHANGED <<managerVars, retryVars, window>>

SaveCurrentSession ==
    /\ \E fault \in QuotaFaults : CoordinatorCall(saveCurrentSession(window, World, fault))
    /\ restored' = <<>>
    /\ UNCHANGED <<managerVars, retryVars, window>>

RestoreSession ==
    /\ Cardinality(timers) < MaxTimers
    /\ \E id \in StoreIds, fault \in QuotaFaults :
           LET r == restoreSession(window, World, id, fault)
           IN CoordinatorCall(r) /\ restored' = ReadBack("session", r.value)
    /\ UNCHANGED <<managerVars, retryVars, window>>

RestoreCurrentSession ==
    /\ Cardinality(timers) < MaxTimers
    /\ \E fault \in QuotaFaults :
           LET r == restoreCurrentSession(window, World, fault)
           IN CoordinatorCall(r) /\ restored' = ReadBack("session", r.value)
    /\ UNCHANGED <<managerVars, retryVars, window>>

PersistCompleteSession ==
    /\ \E s \in SampleSessions, saveFault \in QuotaFaults, historyFault \in {NoFault, "first"} :
           CoordinatorCall(
               SessionPersistence_completeSession(window, World, s, saveFault, historyFault))
    /\ restored' = <<>>
    /\ UNCHANGED <<managerVars, retryVars, window>>

\* the page goes away after one of the storage calls of completeSession: the
\* store keeps what was written so far, the coordinator and its timer are gone
CompleteSessionInterrupted ==
    /\ \E s \in SampleSessions, saveFault \in QuotaFaults, historyFault \in {NoFault, "first"} :
           LET writes == completeSessionWrites(window, localStorage, s, saveFault, historyFault)
           IN \E k \in 1..Len(writes) :
                  /\ writes[1].ok
                  /\ k < Len(writes)
                  /\ localStorage' = writes[k].store
    /\ autoSaveTimer' = <<>>
    /\ currentSession' = <<>>
    /\ timers' = {}
    /\ thrown' = "interrupted"
    /\ restored' = <<>>
    /\ UNCHANGED <<managerVars, retryVars, window>>

GetHistory ==
    /\ LET r == getHistory(window, World)
       IN CoordinatorCall(r) /\ restored' = ReadBack("history", r.value)
    /\ UNCHANGED <<managerVars, retryVars, window>>

LoadFromHistory ==
    /\ \E id \in StoreIds :
           LET r == loadFromHistory(window, World, id)
           IN CoordinatorCall(r) /\ restored' = ReadBack("session", r.value)
    /\ UNCHANGED <<managerVars, retryVars, window>>

HasSessionInProgress ==
    /\ LET r == hasSessionInProgress(window, World)
       IN CoordinatorCall(r) /\ restored' = ReadBack("flag", r.value)
    /\ UNCHANGED <<managerVars, retryVars, window>>

ClearSession ==
    /\ CoordinatorCall(clearSession(window, World))
    /\ restored' = <<>>
    /\ UNCHANGED <<managerVars, retryVars, window>>

Cleanup ==
    /\ \E fault \in QuotaFaults : CoordinatorCall(cleanup(window, World, fault))
    /\ restored' = <<>>
    /\ UNCHANGED <<managerVars, retryVars, window>>

\* the runtime runs the callback of an armed interval
IntervalFires ==
    /\ \E h \in timers, fault \in QuotaFaults :
           CoordinatorCall(intervalCallback(window, World, fault))
    /\ restored' = <<>>
    /\ UNCHANGED <<managerVars, retryVars, window>>

StoreNext ==
    \/ SaveSession
    \/ LoadSession
    \/ LoadCurrentSession
    \/ ClearCurrentSession
    \/ DeleteSession
    \/ SaveSessionToHistory
    \/ GetSessionHistory
    \/ ClearAllSessions
    \/ Deserialize
    \/ StartAutoSave
    \/ StopAutoSave
    \/ UpdateSession
    \/ SaveCurrentSession
    \/ RestoreSession
    \/ RestoreCurrentSession
    \/ PersistCompleteSession
    \/ CompleteSessionInterrupted
    \/ GetHistory
    \/ LoadFromHistory
    \/ HasSessionInProgress
    \/ ClearSession
    \/ Cleanup
    \/ IntervalFires

StoreSpec == StoreInit /\ [][StoreNext]_vars

\* the runtime runs the callback of an armed interval and the store accepts
\* both writes of its save
IntervalSaves ==
    /\ timers # {}
    /\ CoordinatorCall(intervalCallback(window, World, NoFault))
    /\ restored' = <<>>
    /\ UNCHANGED <<managerVars, retryVars, window>>

\* a page, in a browser or not, that starts on an empty store
AutoSaveInit ==
    /\ StoreInit
    /\ localStorage = EmptyStorage

\* the life of the coordinator's timer, with the store emptied under it
AutoSaveNext ==
    \/ StartAutoSave
    \/ StopAutoSave
    \/ UpdateSession
    \/ SaveCurrentSession
    \/ PersistCompleteSession
    \/ ClearSession
    \/ Cleanup
    \/ IntervalFires
    \/ DeleteSession
    \/ ClearCurrentSession

\* setInterval: an armed interval keeps firing, every AUTO_SAVE_INTERVAL ms
AutoSaveLiveSpec == AutoSaveInit /\ [][AutoSaveNext]_vars /\ WF_vars(IntervalSaves)

---------------------------------------------------------------------------
(* A client of withRetry, and the operation it is handed *)

sessionVars == <<session, now, issued, thrown, restored, persistVars>>

RetryInit ==
    /\ session = createSession(SampleJD, <<>>, SessionIds[1], 0)
    /\ now = 0
    /\ issued = 1
    /\ thrown = "none"
    /\ restored = <<>>
    /\ window = TRUE
    /\ localStorage = EmptyStorage
    /\ autoSaveTimer = <<>>
    /\ currentSession = <<>>
    /\ timers = {}
    /\ NotRetrying

\* withRetry is called: the loop is entered with attempt = 1 and the
\* operation is invoked
WithRetry ==
    /\ retryPc \in {"idle", "returned", "raised"}
    /\ retryPc' = "try"
    /\ attempt' = 1
    /\ lastError' = <<>>
    /\ outcomes' = <<>>
    /\ sleeping' = <<>>
    /\ retryResult' = <<>>
    /\ UNCHANGED routeVars
    /\ UNCHANGED sessionVars

\* the awaited operation returns v: withRetry returns it
OperationReturns ==
    /\ retryPc = "try"
    /\ \E v \in Values :
           /\ outcomes' = Append(outcomes, Fulfilled(v))
           /\ retryResult' = <<Fulfilled(v)>>
    /\ retryPc' = "returned"
    /\ UNCHANGED <<attempt, lastError, sleeping, routeVars>>
    /\ UNCHANGED sessionVars

\* the awaited operation throws error: the catch block of withRetry
OperationThrows ==
    /\ retryPc = "try"
    /\ \E error \in Errors :
           LET shouldRetry == isRetryableError(error)
           IN /\ outcomes' = Append(outcomes, Failed(error))
              /\ lastError' = <<error>>
              /\ IF attempt = maxAttempts \/ ~shouldRetry
                 THEN /\ retryResult' = <<Failed(OpenAIError(attempt, <<error>>, shouldRetry))>>
                      /\ retryPc' = "raised"
                      /\ sleeping' = <<>>
                 ELSE /\ retryResult' = <<>>
                      /\ retryPc' = "sleep"
                      /\ sleeping' = <<getBackoffDelay(attempt)>>
    /\ UNCHANGED <<attempt, routeVars>>
    /\ UNCHANGED sessionVars

\* the timer of sleep(delay) fires: attempt++, the loop condition is tested
\* and the operation is invoked again, or the loop is left
SleepEnds ==
    /\ retryPc = "sleep"
    /\ attempt' = attempt + 1
    /\ sleeping' = <<>>
    /\ IF attempt + 1 <= maxAttempts
       THEN retryPc' = "try" /\ retryResult' = <<>>
       ELSE /\ retryPc' = "raised"
            /\ retryResult' = <<Failed(OpenAIError(maxAttempts, lastError, FALSE))>>
    /\ UNCHANGED <<lastError, outcomes, routeVars>>
    /\ UNCHANGED sessionVars

RetryNext ==
    \/ WithRetry
    \/ OperationReturns
    \/ OperationThrows
    \/ SleepEnds

RetrySpec == RetryInit /\ [][RetryNext]_vars

\* POST is entered: request.json(), the request schema, getOpenAIClient, and
\* withRetry entered with the first invocation of the model under way
Post ==
    /\ retryPc \in {"idle", "returned", "raised"}
    /\ request = <<>> \/ response # <<>>
    /\ \E req \in Requests :
           /\ request' = <<req>>
           /\ IF req.body = "unparsable"
              THEN response' = <<CaughtResponse(Thrown("SyntaxError"))>>
              ELSE IF req.body = "short"
              THEN response' = <<Response(400, "ValidationError", <<>>)>>
              ELSE IF ~req.apiKey
              THEN response' = <<CaughtResponse(Thrown("ValidationError"))>>
              ELSE response' = <<>>
           /\ retryPc' = IF req.body = "valid" /\ req.apiKey THEN "try" ELSE "idle"
           /\ attempt' = IF req.body = "valid" /\ req.apiKey THEN 1 ELSE 0
    /\ lastError' = <<>>
    /\ outcomes' = <<>>
    /\ sleeping' = <<>>
    /\ retryResult' = <<>>
    /\ UNCHANGED sessionVars

\* withRetry has settled: the rest of parseJobDescription, and the response
Respond ==
    /\ request # <<>>
    /\ response = <<>>
    /\ retryPc \in {"returned", "raised"}
    /\ response' = <<RouteResult(retryResult[1])>>
    /\ UNCHANGED <<retryPc, attempt, lastError, outcomes, sleeping, retryResult, request>>
    /\ UNCHANGED sessionVars

RouteNext ==
    \/ Post
    \/ OperationReturns
    \/ OperationThrows
    \/ SleepEnds
    \/ Respond

RouteSpec == RetryInit /\ [][RouteNext]_vars

\* an invoked operation settles (the client's request timeout), and the timer
\* of a sleep fires
RetryLiveSpec ==
    /\ RetryInit
    /\ [][RetryNext]_vars
    /\ WF_vars(OperationReturns \/ OperationThrows)
    /\ WF_vars(SleepEnds)

---------------------------------------------------------------------------
(* Properties of the session manager and the codec *)

NumQuestions == Len(session.questions)
Cursor == session.currentQuestionIndex
DistinctQuestionIds ==
    \A i, j \in 1..NumQuestions :
        session.questions[i].id = session.questions[j].id => i = j

\* C1 as stated: in every session reachable from createSession - for any
\* question list createSession accepts - by manager operations,
\* 0 <= currentQuestionIndex < number of questions.
C1_CursorBoundAnyList == 0 <= Cursor /\ Cursor < NumQuestions

\* C1 amended: in every session reachable from createSession for a non-empty
\* question list, 0 <= currentQuestionIndex < number of questions.
C1_CursorBound == NumQuestions > 0 => (0 <= Cursor /\ Cursor < NumQuestions)

\* a session of two questions that navigation has moved to its last question
C1_Witness == NumQuestions = 2 /\ Cursor = 1

\* C2: every key of the answer association is the id of a question of the session.
C2_AnswerKeysValid == MapKeys(session.answers) \subseteq QuestionIdsOf(session)

\* an answer is stored and a later storeAnswer for an unknown id was refused
C2_Witness == session.answers # <<>> /\ thrown = NotFound

\* C3: every key of the feedback association is the id of a question of the
\* session.
C3_FeedbackKeysValid == MapKeys(session.feedback) \subseteq QuestionIdsOf(session)

\* C4: isComplete is true exactly when completedAt is non-null, and a set
\* completedAt is not earlier than createdAt.
C4_CompletionConsistent ==
    /\ session.isComplete <=> session.completedAt # <<>>
    /\ session.completedAt # <<>> => session.completedAt[1] >= session.createdAt

\* a session completed some time after it was created
C4_Witness ==
    /\ session.isComplete
    /\ session.completedAt # <<>>
    /\ session.completedAt[1] > session.createdAt

\* C5: deserialize(serialize(x)) returns a session equal to x: id, job context,
\* questions, cursor, flag, both associations, every timestamp.
C5_RoundTrip == restored # <<>> => restored[1] = Ok(session)

\* a completed session with an answer, a feedback entry and session feedback
\* has been written out and read back
C5_Witness ==
    /\ restored # <<>>
    /\ session.answers # <<>>
    /\ session.feedback # <<>>
    /\ session.sessionFeedback # <<>>
    /\ session.completedAt # <<>>

\* C6: storeAnswer with a question id that is no question of the session
\* throws and returns no session, and the session the caller holds after the
\* call is the one it passed.
C6_UnknownIdRejected ==
    \A q \in AnyIds \ QuestionIdsOf(session), t \in Texts :
        LET r == storeAnswer(session, q, t)
        IN r = Throw(NotFound) /\ Returned(r) = session

\* storeAnswer has just thrown on a session that holds answers and feedback
C6_Witness == thrown = NotFound /\ session.answers # <<>> /\ session.feedback # <<>>

\* C7: setCurrentQuestionIndex throws, the caller's session unchanged, exactly
\* when index < 0 or index >= number of questions; for every other index the
\* session it returns has the cursor at index.
C7_IndexRange ==
    \A i \in Indexes :
        LET r == setCurrentQuestionIndex(session, i)
        IN /\ ~r.ok <=> (i < 0 \/ i >= NumQuestions)
           /\ ~r.ok => (r = Throw(InvalidIndex) /\ Returned(r) = session)
           /\ r.ok => r.value.currentQuestionIndex = i

\* setCurrentQuestionIndex has just thrown on a session whose cursor it had moved
C7_Witness == thrown = InvalidIndex /\ Cursor = 1

\* C8 as stated: nextQuestion throws "last question" when the cursor is at the
\* last index and previousQuestion throws "first question" when the cursor is
\* 0; at any other cursor they return the session with the cursor one greater,
\* one smaller.
C8_NavigationAsStated ==
    LET n == nextQuestion(session)
        p == previousQuestion(session)
    IN /\ Cursor = NumQuestions - 1 => (n = Throw(AtLast) /\ Returned(n) = session)
       /\ Cursor # NumQuestions - 1 => (n.ok /\ n.value.currentQuestionIndex = Cursor + 1)
       /\ Cursor = 0 => (p = Throw(AtFirst) /\ Returned(p) = session)
       /\ Cursor # 0 => (p.ok /\ p.value.currentQuestionIndex = Cursor - 1)

\* C8 amended: nextQuestion throws "last question" when the cursor is at the
\* last index or the session has no question, previousQuestion throws "first
\* question" when the cursor is 0, the caller's session unchanged in both
\* cases; at any other cursor they return the session with the cursor one
\* greater, one smaller.
C8_Navigation ==
    LET atLast == Cursor = NumQuestions - 1 \/ NumQuestions = 0
        n == nextQuestion(session)
        p == previousQuestion(session)
    IN /\ atLast => (n = Throw(AtLast) /\ Returned(n) = session)
       /\ ~atLast => (n.ok /\ n.value.currentQuestionIndex = Cursor + 1)
       /\ Cursor = 0 => (p = Throw(AtFirst) /\ Returned(p) = session)
       /\ Cursor # 0 => (p.ok /\ p.value.currentQuestionIndex = Cursor - 1)

\* nextQuestion has just thrown at the last of two questions
C8_Witness == thrown = AtLast /\ NumQuestions = 2 /\ Cursor = 1

\* C9: storeAnswer(storeAnswer(s, id, t1), id, t2) has getAnswer(id) = t2 and
\* as many answers as storeAnswer(s, id, t1); storing an answer for an id that
\* has one does not grow the association.
C9_Overwrite ==
    \A q \in QuestionIdsOf(session), t1 \in Texts, t2 \in Texts :
        LET s1 == storeAnswer(session, q, t1).value
            s2 == storeAnswer(s1, q, t2).value
        IN /\ getAnswer(s2, q) = <<t2>>
           /\ Len(s2.answers) = Len(s1.answers)
           /\ MapHas(session.answers, q) => Len(s1.answers) = Len(session.answers)

\* both of two questions are answered, the first stored one with the second text
C9_Witness ==
    /\ Len(session.answers) = 2
    /\ session.answers[1][2] = "t2"
    /\ session.answers[2][2] = "t1"

AllAnswered ==
    \A i \in 1..NumQuestions : MapHas(session.answers, session.questions[i].id)

AllAnsweredLaws ==
    /\ areAllQuestionsAnswered(session) <=> AllAnswered
    /\ (NumQuestions >= 1 /\ session.answers = <<>>) => ~areAllQuestionsAnswered(session)
    /\ areAllQuestionsAnswered(session) =>
           \A q \in MapKeys(session.answers), t \in Texts :
               areAllQuestionsAnswered(storeAnswer(session, q, t).value)

IssuedBefore == {SessionIds[i] : i \in 1..(issued - 1)}

\* C11: createSession(job, questions) returns a session with the given job
\* context and question list, empty answer and feedback associations, no
\* session feedback, cursor 0, isComplete false, completedAt null, and an
\* identifier different from that of every session created before it.
C11_FreshSession ==
    /\ session.id \notin IssuedBefore
    /\ \A jd \in ParsedJDs, qs \in QuestionLists :
           LET s == createSession(jd, qs, SessionIds[issued + 1], now)
           IN /\ s.parsedJD = jd
              /\ s.questions = qs
              /\ s.answers = <<>>
              /\ s.feedback = <<>>
              /\ s.sessionFeedback = <<>>
              /\ s.currentQuestionIndex = 0
              /\ s.isComplete = FALSE
              /\ s.completedAt = <<>>
              /\ s.id \notin IssuedBefore \cup {session.id}

\* a second session of two questions has just been created
C11_Witness ==
    /\ issued = 2
    /\ session.id = SessionIds[2]
    /\ NumQuestions = 2
    /\ session.answers = <<>>
    /\ session.currentQuestionIndex = 0

---------------------------------------------------------------------------
(* Properties of the codec's error cases, the storage functions and the    *)
(* coordinator *)

\* the value of a JSON text has no id, no parsedJD or no list under questions
LacksRequired(json) ==
    \/ json.kind # "object"
    \/ "id" \notin json.fields
    \/ "parsedJD" \notin json.fields
    \/ "questions" \notin json.fields
    \/ ~json.questionsIsArray

CreatedAtUnparsable(json) ==
    "createdAt" \notin json.fields \/ DateParse(json.createdAt) = InvalidDate

CompletedAtUnparsable(json) ==
    /\ "completedAt" \in json.fields
    /\ json.completedAt # <<>>
    /\ DateParse(json.completedAt[1]) = InvalidDate

\* C12: deserialize fails with "Invalid JSON format" on a text that is not
\* well-formed JSON, with "missing required fields" on every well-formed text
\* whose value lacks id, parsedJD or a list-valued questions (null and other
\* non-objects included), and with a message naming the field on a createdAt,
\* or a non-null completedAt, that parses to no valid timestamp; it returns no
\* session in any of these cases.
C12_ClassifiedByCause ==
    \A id \in StoreIds : localStorage.session[id] # <<>> =>
        LET json == localStorage.session[id][1]
            r == deserializeSession(json)
        IN /\ ~json.wellFormed => r = Throw(InvalidJson)
           /\ (json.wellFormed /\ LacksRequired(json)) => r = Throw(MissingFields)
           /\ (json.wellFormed /\ ~LacksRequired(json) /\ CreatedAtUnparsable(json))
                  => r = Throw(BadCreatedAt)
           /\ (json.wellFormed /\ ~LacksRequired(json) /\ ~CreatedAtUnparsable(json)
                  /\ CompletedAtUnparsable(json))
                  => r = Throw(BadCompletedAt)

\* the most recent call was one that reads, and handed back this value
HasReadBack(kind, value) ==
    /\ Len(restored) = 1
    /\ restored[1].kind = kind
    /\ restored[1].value = value

\* load(id) and loadCurrent() both return s from the store ls
BothLoad(ls, s) ==
    /\ loadSession(window, ls, s.id) = Ok(<<s>>)
    /\ loadCurrentSession(window, ls) = Ok(<<s>>)

\* C13: with storage available, once save(s) has returned, load(s.id) and
\* loadCurrent() both return a session equal to s; this is still so after the
\* calls that are no save, delete(s.id), clearCurrentPointer or clearAll; a
\* later save of another value with the same id replaces it.
C13_SaveThenLoad ==
    window =>
    \A s \in SampleSessions, fault \in QuotaFaults :
        LET saved == saveSession(window, localStorage, s, fault)
        IN saved.ok =>
           /\ BothLoad(saved.store, s)
           /\ \A id \in StoreIds \ {s.id} :
                  BothLoad(deleteSession(window, saved.store, id).store, s)
           /\ \A h \in SampleSessions, f \in {NoFault, "first"} :
                  BothLoad(saveSessionToHistory(window, saved.store, h, f).store, s)
           /\ \A u \in SampleSessions :
                  LET c == [World EXCEPT !.store = saved.store]
                  IN /\ BothLoad(updateSession(window, c, u).world.store, s)
                     /\ BothLoad(stopAutoSave(c).store, s)
           /\ \A s2 \in SampleSessions : s2.id = s.id =>
                  BothLoad(saveSession(window, saved.store, s2, NoFault).store, s2)

\* the finished session s1 was saved over what the page had found under its
\* key, and loadCurrentSession has just returned it
C13_Witness ==
    /\ window
    /\ thrown = "none"
    /\ localStorage.current = <<"s1">>
    /\ HasReadBack("session", <<DoneSession("s1")>>)
    /\ BothLoad(localStorage, DoneSession("s1"))

\* C14: load(id) never raises; it returns absent when no entry is stored
\* under the id, and absent as well when the stored entry is corrupt or fails
\* the codec's validation.
C14_LoadNeverRaises ==
    \A id \in StoreIds :
        LET r == loadSession(window, localStorage, id)
            entry == localStorage.session[id]
        IN /\ r.ok
           /\ entry = <<>> => r.value = <<>>
           /\ (entry # <<>> /\ ~deserializeSession(entry[1]).ok) => r.value = <<>>
           /\ (window /\ entry # <<>> /\ deserializeSession(entry[1]).ok)
                  => r.value = <<deserializeSession(entry[1]).value>>

\* a load has just returned absent, normally, from a store where the entry of
\* s1 is one the codec rejects and the entry of s2 is a saved session
C14_Witness ==
    /\ window
    /\ thrown = "none"
    /\ localStorage.session["s1"] # <<>>
    /\ ~deserializeSession(localStorage.session["s1"][1]).ok
    /\ loadSession(window, localStorage, "s2").value # <<>>
    /\ HasReadBack("session", <<>>)

\* the history key is unset or holds a list
HistoryUnsetOrList ==
    \/ localStorage.history = <<>>
    \/ localStorage.history[1].wellFormed /\ IsArray(localStorage.history[1])

HistoryItems(ls) == getSessionHistory(window, ls).value.items

UniqueIds(items) ==
    \A i, j \in 1..Len(items) : items[i].id = items[j].id => i = j

\* after is before with the entry of s put in: in the place of the entry of
\* the same id when there is one, at the end when there is none
Upserted(before, after, s) ==
    IF \E i \in 1..Len(before) : before[i].id = s.id
    THEN /\ Len(after) = Len(before)
         /\ \A i \in 1..Len(before) :
                after[i] = IF before[i].id = s.id
                           THEN SessionHistoryEntry(s) ELSE before[i]
    ELSE after = Append(before, SessionHistoryEntry(s))

\* C15 as stated: from an unset or valid history list, the list has at most
\* one entry per session id, and every saveToHistory call replaces the entry
\* of an id already present in place, or appends one entry for a new id.
C15_HistoryUpsertAsStated ==
    HistoryUnsetOrList =>
        /\ UniqueIds(HistoryItems(localStorage))
        /\ \A s \in SampleSessions, fault \in {NoFault, "first"} :
               LET written == saveSessionToHistory(window, localStorage, s, fault).store
               IN /\ UniqueIds(HistoryItems(written))
                  /\ Upserted(HistoryItems(localStorage), HistoryItems(written), s)

\* C15 amended: from an unset or valid history list, the list has at most one
\* entry per session id; a saveToHistory call whose write the store accepts
\* replaces the entry of an id already present in place, or appends one
\* entry for a new id; a call made outside a browser, or whose write the store
\* rejects, leaves the list as it was.
C15_HistoryUpsert ==
    HistoryUnsetOrList =>
        /\ UniqueIds(HistoryItems(localStorage))
        /\ \A s \in SampleSessions, fault \in {NoFault, "first"} :
               LET written == saveSessionToHistory(window, localStorage, s, fault).store
               IN /\ UniqueIds(HistoryItems(written))
                  /\ IF window /\ fault = NoFault
                     THEN Upserted(HistoryItems(localStorage), HistoryItems(written), s)
                     ELSE written = localStorage

\* the list holds the entry of the finished session s1 and, after it, the
\* entry of s2
C15_Witness ==
    /\ localStorage.history # <<>>
    /\ HistoryUnsetOrList
    /\ HistoryItems(localStorage) =
           <<SessionHistoryEntry(DoneSession("s1")), SessionHistoryEntry(NewSession("s2"))>>

\* C16: getHistory never raises and returns a list: the stored list when the
\* history entry holds one, the empty list when the entry is unset or its
\* content is corrupted in any way (not parseable, or parseable but no list of
\* summaries).
C16_HistoryAlwaysList ==
    LET r == getSessionHistory(window, localStorage)
        stored == localStorage.history
        holdsList == stored # <<>> /\ stored[1].wellFormed /\ IsArray(stored[1])
    IN /\ r.ok
       /\ IsArray(r.value)
       /\ (window /\ holdsList) => r.value.items = stored[1].items
       /\ ~holdsList => r.value = EmptyArray

\* the intervals armed are exactly the one the coordinator holds, if any
OnlyOwnTimer(c) ==
    /\ Cardinality(c.timers) <= 1
    /\ c.timers = (IF c.autoSaveTimer = <<>> THEN {} ELSE {c.autoSaveTimer[1]})

\* C17: after any sequence of coordinator operations at most one recurring
\* auto-save timer is armed; startAutoSave cancels the timer armed before it
\* arms the new one, so every interval that can fire is the one the
\* coordinator holds and no superseded one fires.
C17_SingleTimer ==
    /\ OnlyOwnTimer(World)
    /\ \A s \in SampleSessions, fault \in QuotaFaults :
           LET started == startAutoSave(window, World, s, fault).world
           IN /\ OnlyOwnTimer(started)
              /\ Cardinality(started.timers) = 1

\* both sessions are stored, the active one is s2 and one timer is armed
C17_Witness ==
    /\ window
    /\ autoSaveTimer # <<>>
    /\ Cardinality(timers) = 1
    /\ currentSession = <<NewSession("s2")>>
    /\ loadSession(window, localStorage, "s1").value # <<>>
    /\ loadSession(window, localStorage, "s2").value # <<>>

\* C18: a timer tick saves the session most recently recorded as active (by
\* startAutoSave, updateSession or a restore), not the one startAutoSave was
\* handed when the timer was armed; updateSession only replaces the recorded
\* value: it arms no timer, cancels none and writes nothing to the store.
C18_TickSavesActive ==
    /\ autoSaveTimer # <<>> => currentSession # <<>>
    /\ \A fault \in QuotaFaults :
           LET ticked == intervalCallback(window, World, fault)
           IN /\ ticked.ok
              /\ ticked.world.store =
                     IF currentSession # <<>>
                     THEN saveSession(window, localStorage, currentSession[1], fault).store
                     ELSE localStorage
              /\ ticked.world.timers = timers
              /\ ticked.world.currentSession = currentSession
    /\ \A u \in SampleSessions :
           LET updated == updateSession(window, World, u)
           IN /\ updated.ok
              /\ updated.world = [World EXCEPT !.currentSession = <<u>>]
    /\ \A s \in SampleSessions, u \in SampleSessions :
           LET started == startAutoSave(window, World, s, NoFault).world
               updated == updateSession(window, started, u).world
               ticked == intervalCallback(window, updated, NoFault).world
           IN /\ updated.timers = started.timers
              /\ updated.store = started.store
              /\ window => BothLoad(ticked.store, u)

\* a timer is armed, the active session is the finished s1, and the store
\* holds that value under s1 and the pointer names it
C18_Witness ==
    /\ window
    /\ autoSaveTimer # <<>>
    /\ currentSession = <<DoneSession("s1")>>
    /\ BothLoad(localStorage, DoneSession("s1"))
    /\ loadSession(window, localStorage, "s2").value # <<>>

\* the store rejects the save of s: no storage, or no room for a write
Rejected(ls, s, fault) == ~saveSession(window, ls, s, fault).ok

\* C19: when the store rejects a save (storage unavailable or quota exceeded)
\* in startAutoSave's immediate save, in a timer tick or in cleanup's final
\* save, the operation returns normally; after a failed immediate save or a
\* failed tick the timer is still armed, and a later tick fires and saves.
C19_FailuresAbsorbed ==
    \A fault \in QuotaFaults :
        /\ \A s \in SampleSessions :
               LET started == startAutoSave(window, World, s, fault)
                   later == intervalCallback(window, started.world, NoFault).world
               IN /\ started.ok
                  /\ started.world.autoSaveTimer # <<>>
                  /\ started.world.timers = {started.world.autoSaveTimer[1]}
                  /\ later.store = saveSession(window, started.world.store, s, NoFault).store
                  /\ window => BothLoad(later.store, s)
        /\ LET ticked == intervalCallback(window, World, fault)
               later == intervalCallback(window, ticked.world, NoFault).world
           IN /\ ticked.ok
              /\ ticked.world.autoSaveTimer = autoSaveTimer
              /\ ticked.world.timers = timers
              /\ currentSession # <<>> =>
                     later.store = saveSession(window, ticked.world.store,
                                               currentSession[1], NoFault).store
              /\ (window /\ currentSession # <<>> /\ serializeSession(currentSession[1]).ok) =>
                     BothLoad(later.store, currentSession[1])
        /\ cleanup(window, World, fault).ok

\* outside a browser, where every save is rejected, startAutoSave has
\* returned normally and left its timer armed
C19_Witness ==
    /\ ~window
    /\ thrown = "none"
    /\ autoSaveTimer # <<>>
    /\ timers # {}
    /\ currentSession # <<>>
    /\ Rejected(localStorage, currentSession[1], NoFault)

\* C20: inside the coordinator's completeSession(s) the session save comes
\* first, the history write comes only after that save has succeeded, and the
\* pointer is cleared only after the history write; when the save fails the
\* error is raised to the caller and neither the history list nor the current
\* pointer has been modified.
C20_CompleteOrdering ==
    \A s \in SampleSessions, saveFault \in QuotaFaults, historyFault \in {NoFault, "first"} :
        LET writes == completeSessionWrites(window, localStorage, s, saveFault, historyFault)
            saved == saveSession(window, localStorage, s, saveFault)
            r == SessionPersistence_completeSession(window, World, s, saveFault, historyFault)
        IN /\ writes[1] = saved
           /\ saved.store.history = localStorage.history
           /\ saved.ok =>
                  /\ Len(writes) = 3
                  /\ writes[2] = saveSessionToHistory(window, saved.store, s, historyFault)
                  /\ writes[2].store.current = <<s.id>>
                  /\ writes[3] = clearCurrentSession(window, writes[2].store)
                  /\ writes[3].store.current = <<>>
                  /\ r.ok
                  /\ r.world.store = writes[3].store
           /\ ~saved.ok =>
                  /\ Len(writes) = 1
                  /\ ~r.ok
                  /\ r.error = saved.error
                  /\ r.world.store.history = localStorage.history
                  /\ r.world.store.current = localStorage.current

\* completeSession has finished for the session s1: its final value is
\* stored, the history list holds its entry, the pointer is cleared, no timer
\* is armed and no session is active
C20_Witness ==
    /\ window
    /\ thrown = "none"
    /\ localStorage.current = <<>>
    /\ loadSession(window, localStorage, "s1") = Ok(<<DoneSession("s1")>>)
    /\ HistoryUnsetOrList
    /\ localStorage.history # <<>>
    /\ HistoryItems(localStorage) = <<SessionHistoryEntry(DoneSession("s1"))>>
    /\ autoSaveTimer = <<>>
    /\ currentSession = <<>>

\* the world a coordinator call leaves behind
Completed(s, saveFault, historyFault) ==
    SessionPersistence_completeSession(window, World, s, saveFault, historyFault)

\* C21: after the coordinator's completeSession(s) has returned normally the
\* current-session pointer is absent, no auto-save timer is armed, the active
\* reference is absent and hasSessionInProgress() is false; no later timer
\* tick writes s or sets the pointer again.
C21_AfterCompletion ==
    \A s \in SampleSessions, saveFault \in QuotaFaults, historyFault \in {NoFault, "first"} :
        LET r == Completed(s, saveFault, historyFault)
        IN r.ok =>
           /\ r.world.store.current = <<>>
           /\ r.world.autoSaveTimer = <<>>
           /\ r.world.timers = {}
           /\ r.world.currentSession = <<>>
           /\ hasSessionInProgress(window, r.world) = CReturn(r.world, FALSE)
           /\ \A fault \in QuotaFaults :
                  intervalCallback(window, r.world, fault).world = r.world

\* a session is completed and archived, and hasSessionInProgress has just
\* answered false: no pointer, no timer, no active session
C21_Witness ==
    /\ window
    /\ HasReadBack("flag", FALSE)
    /\ localStorage.current = <<>>
    /\ timers = {}
    /\ autoSaveTimer = <<>>
    /\ currentSession = <<>>
    /\ loadSession(window, localStorage, "s1") = Ok(<<DoneSession("s1")>>)
    /\ HistoryUnsetOrList
    /\ \E i \in 1..Len(HistoryItems(localStorage)) :
           HistoryItems(localStorage)[i] = SessionHistoryEntry(DoneSession("s1"))

\* C22: when the coordinator's completeSession, clearSession or cleanup has
\* finished - returned normally or raised - no auto-save timer is armed.
C22_TimerReleased ==
    /\ \A s \in SampleSessions, saveFault \in QuotaFaults, historyFault \in {NoFault, "first"} :
           LET w == Completed(s, saveFault, historyFault).world
           IN w.timers = {} /\ w.autoSaveTimer = <<>>
    /\ LET w == clearSession(window, World).world
       IN w.timers = {} /\ w.autoSaveTimer = <<>>
    /\ \A fault \in QuotaFaults :
           LET w == cleanup(window, World, fault).world
           IN w.timers = {} /\ w.autoSaveTimer = <<>>

\* what the current-session pointer leads to: a session that loads
PointedSession ==
    IF window /\ localStorage.current # <<>>
    THEN LET text == localStorage.session[localStorage.current[1]]
         IN IF text # <<>> /\ deserializeSession(text[1]).ok
            THEN <<deserializeSession(text[1]).value>>
            ELSE <<>>
    ELSE <<>>

\* C23: hasSessionInProgress() is true exactly when the current-session
\* pointer is set, the session it names can be loaded and that session is not
\* complete; otherwise (pointer unset or dangling, entry corrupt, session
\* complete) it is false, and it never raises.
C23_InProgressIff ==
    LET r == hasSessionInProgress(window, World)
    IN /\ r.ok
       /\ r.world = World
       /\ r.value = (PointedSession # <<>> /\ ~PointedSession[1].isComplete)

\* the pointer names a stored session that is not complete and
\* hasSessionInProgress has just answered true
C23_Witness ==
    /\ HasReadBack("flag", TRUE)
    /\ localStorage.current = <<"s2">>
    /\ PointedSession = <<NewSession("s2")>>

\* C24: restoreCurrentSession() returns the session the pointer names. When
\* there is one, it becomes the active session and exactly one timer is armed,
\* any earlier timer being released; when there is none it returns absent,
\* does not raise, and leaves the active reference and the timer as they were.
C24_RestoreCurrent ==
    \A fault \in QuotaFaults :
        LET r == restoreCurrentSession(window, World, fault)
        IN /\ r.ok
           /\ r.value = PointedSession
           /\ IF PointedSession # <<>>
              THEN /\ r.world.currentSession = PointedSession
                   /\ r.world.autoSaveTimer # <<>>
                   /\ r.world.timers = {r.world.autoSaveTimer[1]}
              ELSE /\ r.world.currentSession = currentSession
                   /\ r.world.autoSaveTimer = autoSaveTimer
                   /\ r.world.timers = timers

\* the session the pointer names was handed back and is now the active one,
\* with one timer armed for it
C24_Witness ==
    /\ HasReadBack("session", <<DoneSession("s1")>>)
    /\ localStorage.current = <<"s1">>
    /\ currentSession = <<DoneSession("s1")>>
    /\ autoSaveTimer # <<>>
    /\ timers = {autoSaveTimer[1]}

\* the positions of the history list of store ls that hold an entry for id
EntriesFor(ls, id) ==
    IF getSessionHistory(window, ls).value.wellFormed
       /\ IsArray(getSessionHistory(window, ls).value)
    THEN {i \in 1..Len(HistoryItems(ls)) : HistoryItems(ls)[i].id = id}
    ELSE {}

\* C29: after the coordinator's completeSession(s) has returned normally the
\* history ledger holds exactly one entry whose id is s.id, and that entry
\* carries s's role category, experience tier, createdAt, completedAt and
\* overall score (absent when s has no session feedback).
C29_ArchivedOnCompletion ==
    \A s \in SampleSessions, saveFault \in QuotaFaults, historyFault \in {NoFault, "first"} :
        LET r == Completed(s, saveFault, historyFault)
            found == EntriesFor(r.world.store, s.id)
        IN r.ok =>
           /\ Cardinality(found) = 1
           /\ \A i \in found : HistoryItems(r.world.store)[i] = SessionHistoryEntry(s)

\* C30: in every state of completeSession(s) that follows a successful save -
\* before the history write, between the history write and the clearing of the
\* pointer, after the clearing - and in the final state, load(s.id) returns a
\* session equal to s.
C30_LoadableThroughout ==
    \A s \in SampleSessions, saveFault \in QuotaFaults, historyFault \in {NoFault, "first"} :
        LET writes == completeSessionWrites(window, localStorage, s, saveFault, historyFault)
        IN writes[1].ok =>
           /\ Len(writes) = 3
           /\ \A k \in 1..3 : loadSession(window, writes[k].store, s.id) = Ok(<<s>>)
           /\ LET r == Completed(s, saveFault, historyFault)
              IN r.ok /\ loadSession(window, r.world.store, s.id) = Ok(<<s>>)

\* a page that went away between the history write and the clearing of the
\* pointer: the session is archived, still pointed at, and loads
C30_Witness ==
    /\ window
    /\ thrown = "interrupted"
    /\ localStorage.current = <<"s1">>
    /\ EntriesFor(localStorage, "s1") # {}
    /\ loadSession(window, localStorage, "s1") = Ok(<<DoneSession("s1")>>)
    /\ currentSession = <<>>
    /\ timers = {}

\* r is a returned session that differs from s in the fields named at most
FrameOf(s, r, fields) ==
    r.ok => \A f \in FieldNames \ fields : r.value[f] = s[f]

\* the scores a feedback for one question may carry from one call to the next
Scores == {3, 8}

\* C27: a manager transition returns a session that differs from its input in
\* its target field only - storeAnswer: answers; storeFeedback: feedback;
\* setCurrentQuestionIndex, nextQuestion, previousQuestion: the cursor;
\* completeSession: isComplete and completedAt; storeSessionFeedback:
\* sessionFeedback. So id, job context, createdAt and the question sequence
\* are the same in every session reachable from one createSession result.
C27_Frame ==
    /\ [](/\ \A q \in AnyIds, t \in Texts :
               FrameOf(session, storeAnswer(session, q, t), {"answers"})
          /\ \A fb \in Feedbacks :
               FrameOf(session, storeFeedback(session, fb), {"feedback"})
          /\ \A i \in Indexes :
               FrameOf(session, setCurrentQuestionIndex(session, i), {"currentQuestionIndex"})
          /\ FrameOf(session, nextQuestion(session), {"currentQuestionIndex"})
          /\ FrameOf(session, previousQuestion(session), {"currentQuestionIndex"})
          /\ FrameOf(session, completeSession(session, now), {"isComplete", "completedAt"})
          /\ \A sf \in SessionFeedbacks :
               FrameOf(session, storeSessionFeedback(session, sf), {"sessionFeedback"}))
    /\ [][issued' = issued =>
              /\ session'.id = session.id
              /\ session'.parsedJD = session.parsedJD
              /\ session'.createdAt = session.createdAt
              /\ session'.questions = session.questions]_vars

\* the second session created has been through every kind of transition
C27_Witness ==
    /\ session.id = "s2"
    /\ session.isComplete
    /\ session.answers # <<>>
    /\ session.feedback # <<>>
    /\ session.sessionFeedback # <<>>
    /\ session.currentQuestionIndex = 1
    /\ session.createdAt < session.completedAt[1]

\* C28: in every session reachable from createSession by manager operations
\* each entry of the feedback association carries the questionId it is stored
\* under, and storeFeedback for a questionId that has feedback replaces that
\* entry without growing the association.
C28_FeedbackKeyed ==
    /\ \A i \in 1..Len(session.feedback) :
           session.feedback[i][2].questionId = session.feedback[i][1]
    /\ \A fb \in Feedbacks, score \in Scores :
           LET given == [fb EXCEPT !.score = score]
               r == storeFeedback(session, given)
           IN MapHas(session.feedback, fb.questionId) =>
                 /\ r.ok
                 /\ Len(r.value.feedback) = Len(session.feedback)
                 /\ MapKeys(r.value.feedback) = MapKeys(session.feedback)
                 /\ getFeedback(r.value, fb.questionId) = <<given>>

\* feedback is stored under two ids, the one stored first being a question
C28_Witness ==
    /\ Len(session.feedback) = 2
    /\ session.feedback[1][1] = "q1"
    /\ thrown = "none"
    /\ ~session.isComplete

---------------------------------------------------------------------------
(* Properties of withRetry *)

\* a transient failure: status 429, status 5xx, or one of the five network codes
Transient(error) ==
    \/ error.status = <<429>>
    \/ \E st \in 500..599 : error.status = <<st>>
    \/ \E cd \in {"ETIMEDOUT", "ECONNABORTED", "ECONNRESET", "ENOTFOUND", "ECONNREFUSED"} :
           error.code = <<cd>>

\* the i-th invocation of the operation failed with a transient error
FailedTransient(i) == ~outcomes[i].ok /\ Transient(outcomes[i].error[1])

RetryEnded == retryPc \in {"returned", "raised"}

\* C25: withRetry terminates whatever the outcomes of the operation, and
\* invokes it at most 3 times; it returns the result of the first invocation
\* that succeeds, invokes the operation again only after a retryable failure,
\* and when every attempt fails with a retryable error it fails after exactly
\* 3 invocations.
C25_RetryTerminates ==
    /\ (retryPc \in {"try", "sleep"}) ~> RetryEnded
    /\ [](/\ Len(outcomes) <= 3
          /\ \A i \in 1..(Len(outcomes) - 1) : FailedTransient(i)
          /\ retryPc = "returned" =>
                 /\ outcomes[Len(outcomes)].ok
                 /\ retryResult = <<Fulfilled(outcomes[Len(outcomes)].value[1])>>
          /\ (Len(outcomes) > 0 /\ outcomes[Len(outcomes)].ok) => retryPc = "returned"
          /\ (retryPc = "raised" /\ \A i \in 1..Len(outcomes) : FailedTransient(i)) =>
                 Len(outcomes) = 3
          /\ (Len(outcomes) = 3 /\ FailedTransient(3)) => retryPc = "raised")

\* three invocations have failed with transient errors and the call has failed
C25_Witness ==
    /\ retryPc = "raised"
    /\ Len(outcomes) = 3
    /\ \A i \in 1..3 : FailedTransient(i)
    /\ outcomes[1].error[1] # outcomes[3].error[1]

\* C26: the first attempt that fails with an error that is not retryable ends
\* the call, the operation not being invoked again; every failure withRetry
\* raises is an OpenAIError that wraps the last underlying error, its
\* retryable flag false for a non-retryable cause and true when retryable
\* attempts were exhausted.
C26_FailFast ==
    /\ \A i \in 1..Len(outcomes) :
           (~outcomes[i].ok /\ ~Transient(outcomes[i].error[1])) =>
               i = Len(outcomes) /\ retryPc = "raised"
    /\ retryPc = "raised" =>
           LET last == outcomes[Len(outcomes)]
               raised == retryResult[1]
           IN /\ ~last.ok
              /\ ~raised.ok
              /\ raised.error[1].name = "OpenAIError"
              /\ raised.error[1].originalError = last.error
              /\ raised.error[1].retryable = Transient(last.error[1])
              /\ raised.error[1].retryable => Len(outcomes) = 3

\* the second invocation failed with a client error after a transient first
\* failure, and the call has failed without a third
C26_Witness ==
    /\ retryPc = "raised"
    /\ Len(outcomes) = 2
    /\ FailedTransient(1)
    /\ outcomes[2].error[1] = ApiError(<<400>>, <<>>)
    /\ ~retryResult[1].error[1].retryable

---------------------------------------------------------------------------
(* Properties of the history ledger, of stopping and of clearing *)

\* C31: the history ledger holds only completed sessions: whatever coordinator
\* and store operations have run, every entry of the history list was written
\* for a session whose isComplete was true, and so has a completedAt.
C31_HistoryOnlyCompleted ==
    HistoryUnsetOrList =>
        \A i \in 1..Len(HistoryItems(localStorage)) :
            HistoryItems(localStorage)[i].completedAt # <<>>

\* C32: stopAutoSave is idempotent and safe with no timer armed: called once
\* or again it leaves the same state and raises nothing; after it no tick
\* saves anything until a timer is armed again; the active reference and the
\* store are as before.
C32_StopIdempotent ==
    LET c == stopAutoSave(World)
    IN /\ c.autoSaveTimer = <<>>
       /\ c.timers = {}
       /\ c.currentSession = currentSession
       /\ c.store = localStorage
       /\ stopAutoSave(c) = c
       /\ autoSaveTimer = <<>> => c = World
       /\ timers = {} => ~ENABLED IntervalFires

\* the timer of an active session has been stopped: the session is still the
\* active one and is in the store, and no interval is armed
C32_Witness ==
    /\ autoSaveTimer = <<>>
    /\ timers = {}
    /\ currentSession = <<NewSession("s2")>>
    /\ localStorage.current = <<"s2">>
    /\ thrown = "none"

\* the store clearAllSessions leaves behind, however the call ends
Cleared == clearAllSessions(window, localStorage).store

\* C33: after clearAll() the history list is unset and getHistory gives the
\* empty list, the current-session pointer is absent, and load(id) is absent
\* for every id the history listed before the call.
C33_ClearAll ==
    /\ Cleared.history = <<>>
    /\ IsArray(getSessionHistory(window, Cleared).value)
    /\ getSessionHistory(window, Cleared).value.items = <<>>
    /\ getCurrentSessionId(window, Cleared) = <<>>
    /\ \A id \in StoreIds :
           EntriesFor(localStorage, id) # {} => loadSession(window, Cleared, id) = Ok(<<>>)

\* C34: clearAllSessions clears all session data: after it has returned,
\* load(id) is absent for every session id ever passed to save, archived to
\* history or not - no session entry this program wrote remains.
C34_ClearsEverySession ==
    clearAllSessions(window, localStorage).ok =>
        \A id \in StoreIds : loadSession(window, Cleared, id) = Ok(<<>>)

\* C36: a failed save is atomic: when save(s) fails - no durable backing, or
\* a write rejected for lack of space - the store is exactly as before the
\* call: the entry under s.id and the current-session pointer are unchanged.
C36_FailedSaveAtomic ==
    \A s \in SampleSessions, fault \in QuotaFaults :
        LET r == saveSession(window, localStorage, s, fault)
        IN ~r.ok =>
              /\ r.store.session[s.id] = localStorage.session[s.id]
              /\ r.store.current = localStorage.current
              /\ r.store = localStorage

\* the pointer of store ls, when set, names an entry that loads
Integrity(ls) ==
    ls.current # <<>> => loadSession(TRUE, ls, ls.current[1]).value # <<>>

\* save, clearCurrentPointer, saveToHistory and clearAll keep the pointer's
\* integrity, however they end
KeptByWrites ==
    /\ \A s \in SampleSessions, fault \in QuotaFaults :
           /\ Integrity(saveSession(window, localStorage, s, fault).store)
           /\ Integrity(saveSessionToHistory(window, localStorage, s, fault).store)
    /\ Integrity(clearCurrentSession(window, localStorage).store)
    /\ Integrity(Cleared)

\* C37 as stated: with storage available, save, delete, clearCurrentPointer,
\* saveToHistory and clearAll keep this: whenever the current-session pointer
\* is set, a session is stored under the id it names and loadCurrent()
\* returns it.
C37_PointerIntegrityAsStated ==
    (window /\ Integrity(localStorage)) =>
        /\ KeptByWrites
        /\ \A id \in StoreIds : Integrity(deleteSession(window, localStorage, id).store)

\* C37: with storage available, save, clearCurrentPointer, saveToHistory,
\* clearAll and the delete of a session the pointer does not name keep the
\* pointer naming a stored session that loadCurrent() returns; delete(id) of
\* the session the pointer names leaves the pointer set, and loadCurrent()
\* then returns absent without raising.
C37_PointerIntegrity ==
    (window /\ Integrity(localStorage)) =>
        /\ KeptByWrites
        /\ \A id \in StoreIds :
               LET after == deleteSession(window, localStorage, id).store
               IN IF localStorage.current = <<id>>
                  THEN /\ after.current = <<id>>
                       /\ loadCurrentSession(window, after) = Ok(<<>>)
                  ELSE Integrity(after)

\* the first session was saved, archived and deleted; the pointer names the
\* second, which is stored
C37_Witness ==
    /\ window
    /\ localStorage.current = <<"s2">>
    /\ loadCurrentSession(window, localStorage) = Ok(<<NewSession("s2")>>)
    /\ localStorage.session["s1"] = <<>>
    /\ EntriesFor(localStorage, "s1") # {}

\* C38: deserialize never returns a session that holds an invalid timestamp:
\* when createdAt, a non-null completedAt or the timestamp of a feedback entry
\* of the wire text parses to no valid timestamp, deserialize fails; so every
\* session it returns, and every session load returns, serializes again
\* without error.
C38_NoInvalidTimestamp ==
    \A id \in StoreIds :
        localStorage.session[id] # <<>> =>
            LET r == deserializeSession(localStorage.session[id][1])
                loaded == loadSession(TRUE, localStorage, id).value
            IN /\ r.ok =>
                     /\ r.value.createdAt # InvalidDate
                     /\ r.value.completedAt # <<InvalidDate>>
                     /\ \A i \in 1..Len(r.value.feedback) :
                            r.value.feedback[i][2].timestamp # InvalidDate
                     /\ serializeSession(r.value).ok
               /\ loaded # <<>> => serializeSession(loaded[1]).ok

\* C39: completion is absorbing for the flag: once a session has isComplete
\* true, every session a manager operation derives from it - storeAnswer,
\* storeFeedback, navigation, storeSessionFeedback, completeSession - has
\* isComplete true and a completedAt.
C39_CompletionAbsorbing ==
    /\ [](session.isComplete => session.completedAt # <<>>)
    /\ [][(session.isComplete /\ issued' = issued) =>
              /\ session'.isComplete
              /\ session'.completedAt # <<>>]_vars

\* a session completed at time 0 has since been answered, given feedback and
\* navigated, and is still complete
C39_Witness ==
    /\ session.isComplete
    /\ session.completedAt = <<0>>
    /\ now = 1
    /\ Len(session.answers) = 2
    /\ session.feedback # <<>>
    /\ session.currentQuestionIndex = 1
    /\ thrown = "none"

\* session s is in the store under its id, and the pointer names it
Stored(s) ==
    /\ loadSession(TRUE, localStorage, s.id) = Ok(<<s>>)
    /\ localStorage.current = <<s.id>>

\* C40: auto-save liveness: while a timer is armed and the store accepts
\* writes, with the timer tick fair, every session value updateSession has
\* recorded is eventually written to the store under its id, the pointer set
\* to it - unless a later updateSession or startAutoSave replaces it first or
\* the timer is stopped.
C40_AutoSaveLive ==
    \A s \in SampleSessions :
        (window /\ timers # {} /\ currentSession = <<s>>)
            ~> (Stored(s) \/ currentSession # <<s>> \/ timers = {})

\* the timer is armed for the first session, the second has been recorded by
\* updateSession and a tick has written it
C40_Witness ==
    /\ window
    /\ timers # {}
    /\ currentSession = <<NewSession("s2")>>
    /\ Stored(NewSession("s2"))
    /\ loadSession(TRUE, localStorage, "s1") = Ok(<<NewSession("s1")>>)
    /\ thrown = "none"

---------------------------------------------------------------------------
(* Properties of the parse-jd route *)

\* what the route has made of a failure: the error name and the HTTP status
CategoryOf(resp) == <<resp.error, resp.status>>

\* the upstream failure withRetry has raised, if it has
Upstream == retryResult[1].error[1].originalError[1]

RateLimited(e) == e.status = <<429>>

TimedOut(e) == e.code = <<"ETIMEDOUT">> \/ e.code = <<"ECONNABORTED">>

\* the model has answered and parseJobDescription has rejected the answer
MalformedOutput ==
    /\ retryResult # <<>>
    /\ retryResult[1].ok
    /\ ~ParseCompletion(retryResult[1].value[1]).ok

\* C35: once the route has responded, a request that fails validation has
\* got ValidationError/400, an upstream rate limit 429, an upstream timeout
\* 504, any other upstream failure 503, and a model output that is empty, no
\* JSON or off the schema a category of its own, distinct from the other
\* four, with no invocation of the model after the one that returned it.
C35_FailureCategories ==
    (request # <<>> /\ response # <<>>) =>
        LET req == request[1]
            resp == response[1]
        IN /\ req.body \in {"unparsable", "short"} =>
                  CategoryOf(resp) = <<"ValidationError", 400>>
           /\ (retryResult # <<>> /\ ~retryResult[1].ok) =>
                  IF RateLimited(Upstream) THEN resp.status = 429
                  ELSE IF TimedOut(Upstream) THEN resp.status = 504
                  ELSE resp.status = 503
           /\ MalformedOutput =>
                  /\ CategoryOf(resp) \notin
                        {<<"ValidationError", 400>>, <<"RateLimitError", 429>>,
                         <<"TimeoutError", 504>>, <<"OpenAIError", 503>>}
                  /\ resp.status # 200
                  /\ outcomes[Len(outcomes)].ok

====
